---- MODULE Spec2Model ----
(***************************************************************************)
(* A model of the control loop of btc_ticker_weather_websrv.ino: the price *)
(* acquisition (fetchPrice and its four providers), the screen coordinator *)
(* (auto cycle, on-demand return, D6 short press, D5 dual-purpose button), *)
(* the factory-reset hold on D5 and the alert engine.  One step of the     *)
(* model is one call of loop(): the stages below are applied in the order  *)
(* of the source, each to the state the previous one left.                 *)
(***************************************************************************)
EXTENDS Integers, Sequences, FiniteSets, TLC

VARIABLES
    config,                 \* struct Config, fixed while the firmware runs
    now,                    \* the last value millis() returned
    g_currentPrice, g_priceChange24h, g_wifiConnected, g_hasValidData,
    g_dataStale, g_lastPollTime, g_lastSuccessTime, g_currentProvider,
    g_consecutiveFailures,
    g_hasWeatherData, g_weatherStale, g_lastWeatherPoll, g_lastWeatherSuccess,
    g_currentScreen, g_lastScreenSwitch, g_alertStartTime,
    lastWiFiCheck,          \* function statics of loop()
    screenBtnPressStart, screenBtnHandled,
    btnPressStart, d5WeatherShowing, d5BtcShowing, d5BtcReleaseTime,
    d5WeatherReleaseTime,
    lastBlinkTime, blinkState, ledCleanedUp, sosStep,
    display,                \* what the OLED shows (last display.display())
    ledPin,                 \* level last written to config.led_pin
    renders,                \* display writes of the last loop() call, in order
    attempts,               \* fetchPrice calls of the last loop() call: the
                            \* provider attempts of each, in order
    ledWrites,              \* digitalWrite levels of the last loop() call
    currentMillis,          \* loop()'s local of the last call
    d5Level, d6Level,       \* levels digitalRead returned in the last call
    running,                \* FALSE once ESP.restart() was called
    twin,                   \* a second device that is fed the same inputs
                            \* (SpecMirror only): its configuration, its
                            \* state and the inputs of the call in progress
    g_isInConfigMode,       \* the configuration portal (AP mode) is running
    g_logBuffer, g_logHead, g_logCount,
    stored,                 \* the configuration held by config.json
    request, response,      \* the last HTTP request served and its answer
    logCalls,               \* number of addLogEntry calls so far
    ticker                  \* the state of the variant with the hardcoded
                            \* configuration (btc_ticker.ino)

vars == <<config, now, g_currentPrice, g_priceChange24h, g_wifiConnected,
          g_hasValidData, g_dataStale, g_lastPollTime, g_lastSuccessTime,
          g_currentProvider, g_consecutiveFailures, g_hasWeatherData,
          g_weatherStale, g_lastWeatherPoll, g_lastWeatherSuccess,
          g_currentScreen, g_lastScreenSwitch, g_alertStartTime,
          lastWiFiCheck, screenBtnPressStart, screenBtnHandled, btnPressStart,
          d5WeatherShowing, d5BtcShowing, d5BtcReleaseTime,
          d5WeatherReleaseTime, lastBlinkTime, blinkState, ledCleanedUp,
          sosStep, display, ledPin, renders, attempts, ledWrites,
          currentMillis, d5Level, d6Level, running, twin,
          g_isInConfigMode, g_logBuffer, g_logHead, g_logCount, stored,
          request, response, logCalls, ticker>>

\* The variables of the web server and the log buffer.
web == <<g_isInConfigMode, g_logBuffer, g_logHead, g_logCount, stored,
         request, response, logCalls>>

----------------------------------------------------------------------------
(* Arithmetic of the source's integer types.                               *)

\* millis() and every timestamp are unsigned long: differences are taken
\* modulo the counter's range.  The range is narrowed to 2^22 (about 70
\* minutes) so that a wraparound is within reach of the model checker; it
\* is wider than every interval and horizon the specifications use.
ClockMod == 4194304

Sub(a, b) == (a - b) % ClockMod

\* uint8_t
Byte == 256

Last(q) == q[Len(q)]

----------------------------------------------------------------------------
(* Configuration.                                                          *)

Binance == 0
CoinGecko == 1
Coinbase == 2
Kraken == 3
Providers == {Binance, CoinGecko, Coinbase, Kraken}

\* struct Config with its default member initialisers (the members the
\* control loop reads).
DefaultConfig ==
    [ api_source         |-> 0,
      poll_interval      |-> 60000,
      alert_low          |-> 0,
      alert_high         |-> 0,
      blink_pattern_low  |-> 0,
      blink_pattern_high |-> 1,
      weather_enabled    |-> FALSE,
      weather_poll       |-> 1800000,
      btc_cycle          |-> 120000,
      weather_cycle      |-> 10000,
      button_mode        |-> 0,
      alert_mode         |-> 0,
      led_inverted       |-> TRUE,
      alert_duration     |-> 0,
      d5_weather_mode    |-> FALSE,
      d5_btc_mode        |-> FALSE,
      d5_timeout         |-> 5000,
      web_password       |-> "" ]

\* Mutant of HandleSaveD5: the form's values are stored as they come.
HandleSaveD5AsSent(c) == c

\* handleSave: the two D5 roles are made exclusive (d5_btc_mode wins) and a
\* D5 role forces button_mode 3.  c is the configuration as the form
\* fields were parsed.
HandleSaveD5(c) ==
    LET c1 == IF c.d5_weather_mode /\ c.d5_btc_mode
              THEN [c EXCEPT !.d5_weather_mode = FALSE] ELSE c
    IN  IF c1.d5_weather_mode \/ c1.d5_btc_mode
        THEN [c1 EXCEPT !.button_mode = 3] ELSE c1

----------------------------------------------------------------------------
(* The state a loop() call works on, as one record, so that the stages can *)
(* be composed in source order.  ret is the return value of the last       *)
(* bool function called.                                                   *)

Cur ==
    [ now |-> now,
      g_currentPrice |-> g_currentPrice,
      g_priceChange24h |-> g_priceChange24h,
      g_wifiConnected |-> g_wifiConnected,
      g_hasValidData |-> g_hasValidData,
      g_dataStale |-> g_dataStale,
      g_lastPollTime |-> g_lastPollTime,
      g_lastSuccessTime |-> g_lastSuccessTime,
      g_currentProvider |-> g_currentProvider,
      g_consecutiveFailures |-> g_consecutiveFailures,
      g_hasWeatherData |-> g_hasWeatherData,
      g_weatherStale |-> g_weatherStale,
      g_lastWeatherPoll |-> g_lastWeatherPoll,
      g_lastWeatherSuccess |-> g_lastWeatherSuccess,
      g_currentScreen |-> g_currentScreen,
      g_lastScreenSwitch |-> g_lastScreenSwitch,
      g_alertStartTime |-> g_alertStartTime,
      lastWiFiCheck |-> lastWiFiCheck,
      screenBtnPressStart |-> screenBtnPressStart,
      screenBtnHandled |-> screenBtnHandled,
      btnPressStart |-> btnPressStart,
      d5WeatherShowing |-> d5WeatherShowing,
      d5BtcShowing |-> d5BtcShowing,
      d5BtcReleaseTime |-> d5BtcReleaseTime,
      d5WeatherReleaseTime |-> d5WeatherReleaseTime,
      lastBlinkTime |-> lastBlinkTime,
      blinkState |-> blinkState,
      ledCleanedUp |-> ledCleanedUp,
      sosStep |-> sosStep,
      display |-> display,
      ledPin |-> ledPin,
      renders |-> renders,
      attempts |-> attempts,
      ledWrites |-> ledWrites,
      currentMillis |-> currentMillis,
      d5Level |-> d5Level,
      d6Level |-> d6Level,
      running |-> running,
      ret |-> FALSE ]

Commit(s) ==
    /\ now' = s.now
    /\ g_currentPrice' = s.g_currentPrice
    /\ g_priceChange24h' = s.g_priceChange24h
    /\ g_wifiConnected' = s.g_wifiConnected
    /\ g_hasValidData' = s.g_hasValidData
    /\ g_dataStale' = s.g_dataStale
    /\ g_lastPollTime' = s.g_lastPollTime
    /\ g_lastSuccessTime' = s.g_lastSuccessTime
    /\ g_currentProvider' = s.g_currentProvider
    /\ g_consecutiveFailures' = s.g_consecutiveFailures
    /\ g_hasWeatherData' = s.g_hasWeatherData
    /\ g_weatherStale' = s.g_weatherStale
    /\ g_lastWeatherPoll' = s.g_lastWeatherPoll
    /\ g_lastWeatherSuccess' = s.g_lastWeatherSuccess
    /\ g_currentScreen' = s.g_currentScreen
    /\ g_lastScreenSwitch' = s.g_lastScreenSwitch
    /\ g_alertStartTime' = s.g_alertStartTime
    /\ lastWiFiCheck' = s.lastWiFiCheck
    /\ screenBtnPressStart' = s.screenBtnPressStart
    /\ screenBtnHandled' = s.screenBtnHandled
    /\ btnPressStart' = s.btnPressStart
    /\ d5WeatherShowing' = s.d5WeatherShowing
    /\ d5BtcShowing' = s.d5BtcShowing
    /\ d5BtcReleaseTime' = s.d5BtcReleaseTime
    /\ d5WeatherReleaseTime' = s.d5WeatherReleaseTime
    /\ lastBlinkTime' = s.lastBlinkTime
    /\ blinkState' = s.blinkState
    /\ ledCleanedUp' = s.ledCleanedUp
    /\ sosStep' = s.sosStep
    /\ display' = s.display
    /\ ledPin' = s.ledPin
    /\ renders' = s.renders
    /\ attempts' = s.attempts
    /\ ledWrites' = s.ledWrites
    /\ currentMillis' = s.currentMillis
    /\ d5Level' = s.d5Level
    /\ d6Level' = s.d6Level
    /\ running' = s.running

\* The globals and statics as their definitions initialise them.
Boot ==
    [ now |-> 0,
      g_currentPrice |-> 0,
      g_priceChange24h |-> 0,
      g_wifiConnected |-> FALSE,
      g_hasValidData |-> FALSE,
      g_dataStale |-> FALSE,
      g_lastPollTime |-> 0,
      g_lastSuccessTime |-> 0,
      g_currentProvider |-> 0,
      g_consecutiveFailures |-> 0,
      g_hasWeatherData |-> FALSE,
      g_weatherStale |-> FALSE,
      g_lastWeatherPoll |-> 0,
      g_lastWeatherSuccess |-> 0,
      g_currentScreen |-> 0,
      g_lastScreenSwitch |-> 0,
      g_alertStartTime |-> 0,
      lastWiFiCheck |-> 0,
      screenBtnPressStart |-> 0,
      screenBtnHandled |-> FALSE,
      btnPressStart |-> 0,
      d5WeatherShowing |-> FALSE,
      d5BtcShowing |-> FALSE,
      d5BtcReleaseTime |-> 0,
      d5WeatherReleaseTime |-> 0,
      lastBlinkTime |-> 0,
      blinkState |-> TRUE,
      ledCleanedUp |-> TRUE,
      sosStep |-> 0,
      display |-> [kind |-> "boot", n |-> 0],
      ledPin |-> "unset",
      renders |-> <<>>,
      attempts |-> <<>>,
      ledWrites |-> <<>>,
      currentMillis |-> 0,
      d5Level |-> FALSE,
      d6Level |-> FALSE,
      running |-> TRUE,
      ret |-> FALSE ]

----------------------------------------------------------------------------
(* Display and indicator.                                                  *)

\* A frame pushed to the OLED by stage `by`.
Show(s, by, kind, n) ==
    [s EXCEPT !.display = [kind |-> kind, n |-> n],
              !.renders = Append(@, [by |-> by, kind |-> kind, n |-> n])]

\* updateDisplay(): the price screen.
UpdateDisplay(s, by) == Show(s, by, "btc", 0)

\* drawWeatherScreen(): the weather screen.
DrawWeatherScreen(s, by) == Show(s, by, "weather", 0)

\* refreshCurrentScreen()
RefreshCurrentScreen(s, by) ==
    IF s.g_currentScreen = 0 THEN UpdateDisplay(s, by)
    ELSE DrawWeatherScreen(s, by)

\* display.clearDisplay(); display.display();
ClearDisplay(s, by) == Show(s, by, "blank", 0)

\* drawWiFiIcon(118, 0, false); display.display(): the icon is drawn over
\* the frame buffer, whose content stays what it was.
DrawOfflineIcon(s, by) ==
    [s EXCEPT !.renders = Append(@, [by |-> by, kind |-> "wifiIcon", n |-> 0])]

\* digitalWrite(config.led_pin, level)
DigitalWrite(s, level) ==
    [s EXCEPT !.ledPin = level, !.ledWrites = Append(@, level)]

----------------------------------------------------------------------------
(* Price acquisition.  resp is what the providers answer during this call: *)
(* resp.ok is the set of providers whose request would yield a usable      *)
(* price, resp.price and resp.change the values they report.  ms is the    *)
(* time one HTTP request blocks.                                           *)

\* http.GET(): the request blocks for ms and its outcome is recorded.
HttpGet(s, p, ok, ms) ==
    [s EXCEPT !.now = (s.now + ms) % ClockMod,
              !.attempts = [@ EXCEPT ![Len(@)] =
                               Append(@, [provider |-> p, ok |-> ok])]]

\* The assignments every fetcher makes on a usable answer.
StoreQuote(s, price, change) ==
    [s EXCEPT !.g_currentPrice = price,
              !.g_priceChange24h = change,
              !.g_hasValidData = TRUE,
              !.g_dataStale = FALSE,
              !.g_lastSuccessTime = s.now,
              !.ret = TRUE]

FetchPriceBinance(s, resp, ms) ==
    LET s1 == HttpGet(s, Binance, Binance \in resp.ok, ms)
    IN  IF Binance \in resp.ok THEN StoreQuote(s1, resp.price, resp.change)
        ELSE [s1 EXCEPT !.ret = FALSE]

FetchPriceCoinGecko(s, resp, ms) ==
    LET s1 == HttpGet(s, CoinGecko, CoinGecko \in resp.ok, ms)
    IN  IF CoinGecko \in resp.ok THEN StoreQuote(s1, resp.price, resp.change)
        ELSE [s1 EXCEPT !.ret = FALSE]

\* Coinbase's spot price carries no 24 h change: it is stored as 0.
FetchPriceCoinbase(s, resp, ms) ==
    LET s1 == HttpGet(s, Coinbase, Coinbase \in resp.ok, ms)
    IN  IF Coinbase \in resp.ok THEN StoreQuote(s1, resp.price, 0)
        ELSE [s1 EXCEPT !.ret = FALSE]

FetchPriceKraken(s, resp, ms) ==
    LET s1 == HttpGet(s, Kraken, Kraken \in resp.ok, ms)
    IN  IF Kraken \in resp.ok THEN StoreQuote(s1, resp.price, resp.change)
        ELSE [s1 EXCEPT !.ret = FALSE]

\* g_currentProvider = p; success = fetchPrice<p>();
TryProvider(s, p, resp, ms) ==
    LET s1 == [s EXCEPT !.g_currentProvider = p]
    IN  CASE p = Binance   -> FetchPriceBinance(s1, resp, ms)
          [] p = CoinGecko -> FetchPriceCoinGecko(s1, resp, ms)
          [] p = Coinbase  -> FetchPriceCoinbase(s1, resp, ms)
          [] OTHER         -> FetchPriceKraken(s1, resp, ms)

\* Mutant of OrElse: the next provider is tried although one has answered.
OrElseAlways(s, p, resp, ms) == TryProvider(s, p, resp, ms)

\* if (!success) { g_currentProvider = p; success = fetchPrice<p>(); }
OrElse(s, p, resp, ms) == IF s.ret THEN s ELSE TryProvider(s, p, resp, ms)

\* Mutant of FetchSwitch: the fallbacks follow the preferred provider in
\* ring order.
FetchSwitchRing(s, resp, ms) ==
    LET first == IF config.api_source \in {2, 3, 4}
                 THEN config.api_source - 1 ELSE Binance
        s1 == TryProvider(s, first, resp, ms)
    IN  IF config.api_source = 1 THEN s1
        ELSE OrElse(OrElse(OrElse(s1, (first + 1) % 4, resp, ms),
                           (first + 2) % 4, resp, ms),
                    (first + 3) % 4, resp, ms)

\* The switch on config.api_source.
FetchSwitch(s, resp, ms) ==
    CASE config.api_source = 1 ->
           TryProvider(s, Binance, resp, ms)
      [] config.api_source = 2 ->
           OrElse(OrElse(OrElse(TryProvider(s, CoinGecko, resp, ms),
                                Binance, resp, ms),
                         Coinbase, resp, ms),
                  Kraken, resp, ms)
      [] config.api_source = 3 ->
           OrElse(OrElse(OrElse(TryProvider(s, Coinbase, resp, ms),
                                Binance, resp, ms),
                         CoinGecko, resp, ms),
                  Kraken, resp, ms)
      [] config.api_source = 4 ->
           OrElse(OrElse(OrElse(TryProvider(s, Kraken, resp, ms),
                                Binance, resp, ms),
                         CoinGecko, resp, ms),
                  Coinbase, resp, ms)
      [] OTHER ->
           OrElse(OrElse(OrElse(TryProvider(s, Binance, resp, ms),
                                CoinGecko, resp, ms),
                         Coinbase, resp, ms),
                  Kraken, resp, ms)

\* Mutant of CountFailures: a success leaves the counter as it is.
CountFailuresNoReset(s) ==
    IF ~s.ret
    THEN [s EXCEPT !.g_consecutiveFailures = (@ + 1) % Byte]
    ELSE s

\* if (!success) g_consecutiveFailures++; else g_consecutiveFailures = 0;
CountFailures(s) ==
    IF ~s.ret
    THEN [s EXCEPT !.g_consecutiveFailures = (@ + 1) % Byte]
    ELSE [s EXCEPT !.g_consecutiveFailures = 0]

\* Mutant of FetchPrice: the providers are tried without WiFi too.
FetchPriceOffline(s, resp, ms) ==
    CountFailures(FetchSwitch([s EXCEPT !.attempts = Append(@, <<>>),
                                        !.ret = FALSE], resp, ms))

\* fetchPrice()
FetchPrice(s, resp, ms) ==
    LET s0 == [s EXCEPT !.attempts = Append(@, <<>>), !.ret = FALSE]
    IN  IF ~s.g_wifiConnected THEN s0
        ELSE CountFailures(FetchSwitch(s0, resp, ms))

----------------------------------------------------------------------------
(* Weather acquisition.  wres names the weather provider that answers:     *)
(* 1 Open-Meteo, 2 Bright Sky, 0 neither.                                  *)

StoreWeather(s) ==
    [s EXCEPT !.g_hasWeatherData = TRUE,
              !.g_weatherStale = FALSE,
              !.g_lastWeatherSuccess = s.now,
              !.ret = TRUE]

\* fetchWeather()
FetchWeather(s, wres, ms) ==
    IF ~s.g_wifiConnected \/ ~config.weather_enabled THEN s
    ELSE LET t1 == [s EXCEPT !.now = (s.now + ms) % ClockMod]
             t2 == [t1 EXCEPT !.now = (t1.now + ms) % ClockMod]
         IN  IF wres = 1 THEN StoreWeather(t1)
             ELSE IF wres = 2 THEN StoreWeather(t2)
             ELSE [t2 EXCEPT !.g_weatherStale = (@ \/ t2.g_hasWeatherData),
                             !.ret = FALSE]

----------------------------------------------------------------------------
(* The stages of loop(), in source order.  cm is loop()'s currentMillis;   *)
(* in holds what the environment supplies during the call.                 *)

WiFiCheckPeriod == 30000

\* The reconnect check, every 30 s.
WiFiCheck(s, cm, in) ==
    IF Sub(cm, s.lastWiFiCheck) > WiFiCheckPeriod
    THEN LET s1 == [s EXCEPT !.lastWiFiCheck = cm]
         IN  IF ~in.wifiUp
             THEN DrawOfflineIcon([s1 EXCEPT !.g_wifiConnected = FALSE], "wifi")
             ELSE IF ~s1.g_wifiConnected
                  THEN UpdateDisplay(
                           FetchPrice([s1 EXCEPT !.g_wifiConnected = TRUE],
                                      in.respRe, in.attemptMs), "wifi")
                  ELSE s1
    ELSE s

\* Mutant of StaleCheck: the limit itself already counts as stale.
StaleCheckAtLimit(s) ==
    IF Sub(s.now, s.g_lastSuccessTime) >= config.poll_interval * 3
    THEN [s EXCEPT !.g_dataStale = TRUE] ELSE s

\* Mutant of StaleCheck: two poll intervals instead of three.
StaleCheckTwoIntervals(s) ==
    IF Sub(s.now, s.g_lastSuccessTime) > config.poll_interval * 2
    THEN [s EXCEPT !.g_dataStale = TRUE] ELSE s

\* Mutant of StaleCheck: the flag follows the test in both directions.
StaleCheckFollows(s) ==
    [s EXCEPT !.g_dataStale =
                  Sub(s.now, s.g_lastSuccessTime) > config.poll_interval * 3]

\* millis() - g_lastSuccessTime > config.poll_interval * 3
StaleCheck(s) ==
    IF Sub(s.now, s.g_lastSuccessTime) > config.poll_interval * 3
    THEN [s EXCEPT !.g_dataStale = TRUE] ELSE s

\* Mutant of PricePoll: the poll already runs after half the interval.
PricePollEarly(s, cm, in) ==
    IF Sub(cm, s.g_lastPollTime) >= config.poll_interval \div 2
    THEN LET Shown(t) == IF t.g_currentScreen = 0 THEN UpdateDisplay(t, "poll")
                         ELSE t
             Polled(t) == [t EXCEPT !.g_lastPollTime = cm]
         IN  Polled(Shown(StaleCheck(FetchPrice(s, in.resp, in.attemptMs))))
    ELSE s

\* The price poll.  in.lag is the time between the fetch's return and the
\* millis() call of the staleness check.
PricePoll(s, cm, in) ==
    IF Sub(cm, s.g_lastPollTime) >= config.poll_interval
    THEN LET Lagged(t) == [t EXCEPT !.now = (t.now + in.lag) % ClockMod]
             Shown(t) == IF t.g_currentScreen = 0 THEN UpdateDisplay(t, "poll")
                         ELSE t
             Polled(t) == [t EXCEPT !.g_lastPollTime = cm]
         IN  Polled(Shown(StaleCheck(
                 Lagged(FetchPrice(s, in.resp, in.attemptMs)))))
    ELSE s

\* The weather poll.
WeatherPoll(s, cm, in) ==
    IF config.weather_enabled
       /\ Sub(cm, s.g_lastWeatherPoll) >= config.weather_poll
    THEN LET Stale(t) == IF Sub(t.now, t.g_lastWeatherSuccess)
                               > config.weather_poll * 3
                          THEN [t EXCEPT !.g_weatherStale = TRUE] ELSE t
             Shown(t) == IF t.g_currentScreen = 1
                         THEN DrawWeatherScreen(t, "weather") ELSE t
             Polled(t) == [t EXCEPT !.g_lastWeatherPoll = cm]
         IN  Polled(Shown(Stale(FetchWeather(s, in.wres, in.attemptMs))))
    ELSE s

\* Mutant of ScreenCycle: the flip waits until the duration is exceeded.
ScreenCycleLate(s, cm) ==
    IF config.weather_enabled /\ config.button_mode = 0
    THEN LET currentCycle == IF s.g_currentScreen = 0 THEN config.btc_cycle
                             ELSE config.weather_cycle
         IN  IF Sub(cm, s.g_lastScreenSwitch) > currentCycle
             THEN RefreshCurrentScreen(
                      [s EXCEPT !.g_currentScreen = (@ + 1) % 2,
                                !.g_lastScreenSwitch = cm], "cycle")
             ELSE s
    ELSE s

\* Auto cycle (button_mode 0): flip after the visible screen's duration.
ScreenCycle(s, cm) ==
    IF config.weather_enabled /\ config.button_mode = 0
    THEN LET currentCycle == IF s.g_currentScreen = 0 THEN config.btc_cycle
                             ELSE config.weather_cycle
         IN  IF Sub(cm, s.g_lastScreenSwitch) >= currentCycle
             THEN RefreshCurrentScreen(
                      [s EXCEPT !.g_currentScreen = (@ + 1) % 2,
                                !.g_lastScreenSwitch = cm], "cycle")
             ELSE s
    ELSE s

\* Mutant of OnDemandReturn: the return waits until weather_cycle is
\* exceeded.
OnDemandReturnLate(s, cm) ==
    IF config.weather_enabled /\ config.button_mode = 2
       /\ s.g_currentScreen = 1
       /\ Sub(cm, s.g_lastScreenSwitch) > config.weather_cycle
    THEN UpdateDisplay([s EXCEPT !.g_currentScreen = 0,
                                 !.g_lastScreenSwitch = cm], "ondemand")
    ELSE s

\* On-demand (button_mode 2): back to the price screen after weather_cycle.
OnDemandReturn(s, cm) ==
    IF config.weather_enabled /\ config.button_mode = 2
       /\ s.g_currentScreen = 1
       /\ Sub(cm, s.g_lastScreenSwitch) >= config.weather_cycle
    THEN UpdateDisplay([s EXCEPT !.g_currentScreen = 0,
                                 !.g_lastScreenSwitch = cm], "ondemand")
    ELSE s

DebounceMs == 50
ShortPressMs == 1000

\* Mutant of ShortPressScreen: the press toggles the screen in every mode.
ShortPressScreenToggle(s) == (s.g_currentScreen + 1) % 2

\* What a short press on D6 does to g_currentScreen.
ShortPressScreen(s) ==
    IF config.button_mode = 0 THEN (s.g_currentScreen + 1) % 2
    ELSE IF config.button_mode = 1 THEN 1
    ELSE IF config.button_mode = 2 THEN 1
    ELSE s.g_currentScreen

\* Mutant of ScreenButton: a press of exactly 50 ms already counts.
ScreenButtonNoDebounce(s, cm, pressed) ==
    IF pressed
    THEN IF s.screenBtnPressStart = 0
         THEN [s EXCEPT !.screenBtnPressStart = cm, !.screenBtnHandled = FALSE]
         ELSE s
    ELSE LET pressDuration == Sub(cm, s.screenBtnPressStart)
             s1 == IF s.screenBtnPressStart > 0 /\ ~s.screenBtnHandled
                      /\ pressDuration >= DebounceMs
                      /\ pressDuration < ShortPressMs
                   THEN LET s2 == IF config.weather_enabled
                                  THEN RefreshCurrentScreen(
                                          [s EXCEPT
                                             !.g_currentScreen = ShortPressScreen(s),
                                             !.g_lastScreenSwitch = cm], "d6")
                                  ELSE s
                        IN  [s2 EXCEPT !.screenBtnHandled = TRUE]
                   ELSE s
         IN  [s1 EXCEPT !.screenBtnPressStart = 0]

\* The screen button on D6; pressed is digitalRead(SCREEN_BTN_PIN) == LOW.
ScreenButton(s, cm, pressed) ==
    IF pressed
    THEN IF s.screenBtnPressStart = 0
         THEN [s EXCEPT !.screenBtnPressStart = cm, !.screenBtnHandled = FALSE]
         ELSE s
    ELSE LET pressDuration == Sub(cm, s.screenBtnPressStart)
             s1 == IF s.screenBtnPressStart > 0 /\ ~s.screenBtnHandled
                      /\ pressDuration > DebounceMs
                      /\ pressDuration < ShortPressMs
                   THEN LET s2 == IF config.weather_enabled
                                  THEN RefreshCurrentScreen(
                                          [s EXCEPT
                                             !.g_currentScreen = ShortPressScreen(s),
                                             !.g_lastScreenSwitch = cm], "d6")
                                  ELSE s
                        IN  [s2 EXCEPT !.screenBtnHandled = TRUE]
                   ELSE s
         IN  [s1 EXCEPT !.screenBtnPressStart = 0]

\* Mutant of D5BtcMode: the revert waits until the timeout is exceeded.
D5BtcModeLate(s, cm, high) ==
    IF high
    THEN IF ~s.d5BtcShowing
         THEN [UpdateDisplay([s EXCEPT !.g_currentScreen = 0], "d5")
                  EXCEPT !.d5BtcShowing = TRUE, !.d5BtcReleaseTime = 0]
         ELSE s
    ELSE IF s.d5BtcShowing
         THEN IF config.d5_timeout = 0
              THEN [DrawWeatherScreen([s EXCEPT !.g_currentScreen = 1], "d5")
                       EXCEPT !.d5BtcShowing = FALSE]
              ELSE IF s.d5BtcReleaseTime = 0
              THEN [s EXCEPT !.d5BtcReleaseTime = cm]
              ELSE IF Sub(cm, s.d5BtcReleaseTime) > config.d5_timeout
              THEN [DrawWeatherScreen([s EXCEPT !.g_currentScreen = 1], "d5")
                       EXCEPT !.d5BtcShowing = FALSE, !.d5BtcReleaseTime = 0]
              ELSE s
         ELSE s

\* D5 as the BTC button (config.d5_btc_mode): weather is the default
\* screen; high is digitalRead(RESET_BTN_PIN) == HIGH.
D5BtcMode(s, cm, high) ==
    IF high
    THEN IF ~s.d5BtcShowing
         THEN [UpdateDisplay([s EXCEPT !.g_currentScreen = 0], "d5")
                  EXCEPT !.d5BtcShowing = TRUE, !.d5BtcReleaseTime = 0]
         ELSE s
    ELSE IF s.d5BtcShowing
         THEN IF config.d5_timeout = 0
              THEN [DrawWeatherScreen([s EXCEPT !.g_currentScreen = 1], "d5")
                       EXCEPT !.d5BtcShowing = FALSE]
              ELSE IF s.d5BtcReleaseTime = 0
              THEN [s EXCEPT !.d5BtcReleaseTime = cm]
              ELSE IF Sub(cm, s.d5BtcReleaseTime) >= config.d5_timeout
              THEN [DrawWeatherScreen([s EXCEPT !.g_currentScreen = 1], "d5")
                       EXCEPT !.d5BtcShowing = FALSE, !.d5BtcReleaseTime = 0]
              ELSE s
         ELSE s

\* Mutant of D5WeatherMode: the revert waits until the timeout is exceeded.
D5WeatherModeLate(s, cm, high) ==
    IF high
    THEN IF ~s.d5WeatherShowing
         THEN [DrawWeatherScreen([s EXCEPT !.g_currentScreen = 1], "d5")
                  EXCEPT !.d5WeatherShowing = TRUE, !.d5WeatherReleaseTime = 0]
         ELSE s
    ELSE IF s.d5WeatherShowing
         THEN IF config.d5_timeout = 0
              THEN [UpdateDisplay([s EXCEPT !.g_currentScreen = 0], "d5")
                       EXCEPT !.d5WeatherShowing = FALSE]
              ELSE IF s.d5WeatherReleaseTime = 0
              THEN [s EXCEPT !.d5WeatherReleaseTime = cm]
              ELSE IF Sub(cm, s.d5WeatherReleaseTime) > config.d5_timeout
              THEN [UpdateDisplay([s EXCEPT !.g_currentScreen = 0], "d5")
                       EXCEPT !.d5WeatherShowing = FALSE,
                              !.d5WeatherReleaseTime = 0]
              ELSE s
         ELSE s

\* Mutant of D5WeatherMode: the weather screen is drawn in every call that
\* reads D5 high.
D5WeatherModeRedraw(s, cm, high) ==
    IF high
    THEN [DrawWeatherScreen([s EXCEPT !.g_currentScreen = 1], "d5")
             EXCEPT !.d5WeatherShowing = TRUE, !.d5WeatherReleaseTime = 0]
    ELSE IF s.d5WeatherShowing
         THEN IF config.d5_timeout = 0
              THEN [UpdateDisplay([s EXCEPT !.g_currentScreen = 0], "d5")
                       EXCEPT !.d5WeatherShowing = FALSE]
              ELSE IF s.d5WeatherReleaseTime = 0
              THEN [s EXCEPT !.d5WeatherReleaseTime = cm]
              ELSE IF Sub(cm, s.d5WeatherReleaseTime) >= config.d5_timeout
              THEN [UpdateDisplay([s EXCEPT !.g_currentScreen = 0], "d5")
                       EXCEPT !.d5WeatherShowing = FALSE,
                              !.d5WeatherReleaseTime = 0]
              ELSE s
         ELSE s

\* D5 as the weather button (config.d5_weather_mode): the price screen is
\* the default screen.
D5WeatherMode(s, cm, high) ==
    IF high
    THEN IF ~s.d5WeatherShowing
         THEN [DrawWeatherScreen([s EXCEPT !.g_currentScreen = 1], "d5")
                  EXCEPT !.d5WeatherShowing = TRUE, !.d5WeatherReleaseTime = 0]
         ELSE s
    ELSE IF s.d5WeatherShowing
         THEN IF config.d5_timeout = 0
              THEN [UpdateDisplay([s EXCEPT !.g_currentScreen = 0], "d5")
                       EXCEPT !.d5WeatherShowing = FALSE]
              ELSE IF s.d5WeatherReleaseTime = 0
              THEN [s EXCEPT !.d5WeatherReleaseTime = cm]
              ELSE IF Sub(cm, s.d5WeatherReleaseTime) >= config.d5_timeout
              THEN [UpdateDisplay([s EXCEPT !.g_currentScreen = 0], "d5")
                       EXCEPT !.d5WeatherShowing = FALSE,
                              !.d5WeatherReleaseTime = 0]
              ELSE s
         ELSE s

ResetHoldMs == 10000
CountdownAfterMs == 2000
ResetDelayMs == 1000

\* Mutant of FactoryReset: the countdown is drawn from 2 s on.
FactoryResetCountdownAtTwo(s, cm, high) ==
    IF high
    THEN LET s1 == IF s.btnPressStart = 0 THEN [s EXCEPT !.btnPressStart = cm]
                   ELSE s
             duration == Sub(cm, s1.btnPressStart)
         IN  IF duration > ResetHoldMs
             THEN [Show(s1, "reset", "resetting", 0)
                      EXCEPT !.now = (s1.now + ResetDelayMs) % ClockMod,
                             !.running = FALSE]
             ELSE IF duration >= CountdownAfterMs
             THEN [Show(s1, "reset", "countdown", 10 - (duration \div 1000))
                      EXCEPT !.lastWiFiCheck = cm]
             ELSE s1
    ELSE [s EXCEPT !.btnPressStart = 0]

\* Mutant of FactoryReset: the reset fires when 10 s are reached.
FactoryResetAtTen(s, cm, high) ==
    IF high
    THEN LET s1 == IF s.btnPressStart = 0 THEN [s EXCEPT !.btnPressStart = cm]
                   ELSE s
             duration == Sub(cm, s1.btnPressStart)
         IN  IF duration >= ResetHoldMs
             THEN [Show(s1, "reset", "resetting", 0)
                      EXCEPT !.now = (s1.now + ResetDelayMs) % ClockMod,
                             !.running = FALSE]
             ELSE IF duration > CountdownAfterMs
             THEN [Show(s1, "reset", "countdown", 10 - (duration \div 1000))
                      EXCEPT !.lastWiFiCheck = cm]
             ELSE s1
    ELSE [s EXCEPT !.btnPressStart = 0]

\* D5 as the factory-reset button: past 10 s the file system is formatted
\* and ESP.restart() ends the run; past 2 s the countdown is drawn.
FactoryReset(s, cm, high) ==
    IF high
    THEN LET s1 == IF s.btnPressStart = 0 THEN [s EXCEPT !.btnPressStart = cm]
                   ELSE s
             duration == Sub(cm, s1.btnPressStart)
         IN  IF duration > ResetHoldMs
             THEN [Show(s1, "reset", "resetting", 0)
                      EXCEPT !.now = (s1.now + ResetDelayMs) % ClockMod,
                             !.running = FALSE]
             ELSE IF duration > CountdownAfterMs
             THEN [Show(s1, "reset", "countdown", 10 - (duration \div 1000))
                      EXCEPT !.lastWiFiCheck = cm]
             ELSE s1
    ELSE [s EXCEPT !.btnPressStart = 0]

\* Mutant of D5Button: the reset hold is watched in every D5 role.
D5ButtonResetAlways(s, cm, high) ==
    LET Role(t) == IF config.d5_btc_mode THEN D5BtcMode(t, cm, high)
                   ELSE IF config.d5_weather_mode THEN D5WeatherMode(t, cm, high)
                   ELSE t
        Rest(t) == IF t.running THEN Role(t) ELSE t
    IN  Rest(FactoryReset(s, cm, high))

\* The D5 dispatch: d5_btc_mode first, then d5_weather_mode, else reset.
D5Button(s, cm, high) ==
    IF config.d5_btc_mode THEN D5BtcMode(s, cm, high)
    ELSE IF config.d5_weather_mode THEN D5WeatherMode(s, cm, high)
    ELSE FactoryReset(s, cm, high)

----------------------------------------------------------------------------
(* The alert engine.                                                       *)

\* config.alert_low > 0 && g_currentPrice < config.alert_low
LowBreach(s) == config.alert_low > 0 /\ s.g_currentPrice < config.alert_low

\* config.alert_high > 0 && g_currentPrice > config.alert_high
HighBreach(s) == config.alert_high > 0 /\ s.g_currentPrice > config.alert_high

\* The raw alert condition.
AlertCondition(s) == s.g_hasValidData /\ (LowBreach(s) \/ HighBreach(s))

\* Mutant of DurationExceeded: the cutoff already acts when the duration
\* is reached.
DurationReached(s, cm) ==
    config.alert_duration > 0
    /\ Sub(cm, s.g_alertStartTime) >= config.alert_duration * 1000

\* The duration cutoff: alertTriggered is cleared once the alert has lasted
\* longer than config.alert_duration seconds.
DurationExceeded(s, cm) ==
    config.alert_duration > 0
    /\ Sub(cm, s.g_alertStartTime) > config.alert_duration * 1000

\* Mutant of AlertDuration: the cutoff also clears the start time.
AlertDurationRearm(s, cm) ==
    IF AlertCondition(s)
    THEN LET s1 == IF s.g_alertStartTime = 0
                   THEN [s EXCEPT !.g_alertStartTime = cm] ELSE s
         IN  IF DurationExceeded(s1, cm)
             THEN [s1 EXCEPT !.g_alertStartTime = 0, !.ret = FALSE]
             ELSE [s1 EXCEPT !.ret = TRUE]
    ELSE [s EXCEPT !.g_alertStartTime = 0, !.ret = FALSE]

\* The start-time bookkeeping; ret is alertTriggered after the cutoff.
AlertDuration(s, cm) ==
    IF AlertCondition(s)
    THEN LET s1 == IF s.g_alertStartTime = 0
                   THEN [s EXCEPT !.g_alertStartTime = cm] ELSE s
         IN  [s1 EXCEPT !.ret = ~DurationExceeded(s1, cm)]
    ELSE [s EXCEPT !.g_alertStartTime = 0, !.ret = FALSE]

\* Mutant of ActivePattern: the high threshold is looked at first.
ActivePatternHighFirst(s) ==
    IF HighBreach(s) THEN config.blink_pattern_high
    ELSE IF LowBreach(s) THEN config.blink_pattern_low
    ELSE 0

\* The pattern of the breached threshold, low first.
ActivePattern(s) ==
    IF LowBreach(s) THEN config.blink_pattern_low
    ELSE IF HighBreach(s) THEN config.blink_pattern_high
    ELSE 0

SosGapMs == 5000
SosLastStep == 17

\* Mutant of SosDuration: the pause after the last step is an ordinary
\* gap.
SosDurationNoPause(step) ==
    LET d0 == IF step = 5 THEN 600
              ELSE IF step = 11 THEN 600
              ELSE 200
    IN  IF step >= 6 /\ step <= 10 /\ step % 2 = 0 THEN 600 ELSE d0

\* How long SOS step `step` is held.
SosDuration(step) ==
    LET d0 == IF step = 5 THEN 600
              ELSE IF step = 11 THEN 600
              ELSE IF step = 17 THEN 2000
              ELSE 200
    IN  IF step >= 6 /\ step <= 10 /\ step % 2 = 0 THEN 600 ELSE d0

\* The SOS pattern (pattern 3).
SosBlink(s, cm) ==
    LET step0 == IF Sub(cm, s.lastBlinkTime) > SosGapMs THEN 0 ELSE s.sosStep
        adv   == Sub(cm, s.lastBlinkTime) >= SosDuration(step0)
        step1 == IF adv
                 THEN (IF (step0 + 1) % Byte > SosLastStep THEN 0
                       ELSE (step0 + 1) % Byte)
                 ELSE step0
    IN  [s EXCEPT !.sosStep = step1,
                  !.lastBlinkTime = IF adv THEN cm ELSE @,
                  !.blinkState = (step1 % 2 = 0)]

\* The toggle interval of patterns 0 (slow), 1 (fast) and 2 (strobe).
BlinkInterval(pattern) ==
    IF pattern = 1 THEN 250 ELSE IF pattern = 2 THEN 50 ELSE 1000

\* The standard patterns.
StandardBlink(s, cm, pattern) ==
    IF Sub(cm, s.lastBlinkTime) >= BlinkInterval(pattern)
    THEN [s EXCEPT !.blinkState = ~@, !.lastBlinkTime = cm]
    ELSE s

\* Mutant of LedLevel: the polarity setting is ignored.
LedLevelActiveHigh(on) == IF on THEN "HIGH" ELSE "LOW"

\* The pin level for a logical LED state.
LedLevel(on) ==
    IF on THEN (IF config.led_inverted THEN "LOW" ELSE "HIGH")
    ELSE (IF config.led_inverted THEN "HIGH" ELSE "LOW")

\* Mutant of ApplyAlert: the visible phase draws the active screen.
ApplyAlertOnActiveScreen(s) ==
    LET s1 == IF config.alert_mode = 0 \/ config.alert_mode = 2
              THEN (IF s.blinkState THEN RefreshCurrentScreen(s, "alert")
                    ELSE ClearDisplay(s, "alert"))
              ELSE s
    IN  IF config.alert_mode = 1 \/ config.alert_mode = 2
        THEN DigitalWrite(s1, LedLevel(s1.blinkState))
        ELSE s1

\* Display blinking (alert_mode 0 and 2), then LED blinking (1 and 2).
ApplyAlert(s) ==
    LET s1 == IF config.alert_mode = 0 \/ config.alert_mode = 2
              THEN (IF s.blinkState THEN UpdateDisplay(s, "alert")
                    ELSE ClearDisplay(s, "alert"))
              ELSE s
    IN  IF config.alert_mode = 1 \/ config.alert_mode = 2
        THEN DigitalWrite(s1, LedLevel(s1.blinkState))
        ELSE s1

\* Mutant of AlertIdle: the LED is written off in every idle call.
AlertIdleNoLatch(s) ==
    LET s1 == IF ~s.blinkState
              THEN RefreshCurrentScreen([s EXCEPT !.blinkState = TRUE], "idle")
              ELSE s
    IN  [(IF config.alert_mode = 1 \/ config.alert_mode = 2
          THEN DigitalWrite(s1, LedLevel(FALSE)) ELSE s1)
           EXCEPT !.ledCleanedUp = TRUE]

\* Mutant of AlertIdle: the latch is set without the LED being written.
AlertIdleLatchOnly(s) ==
    LET s1 == IF ~s.blinkState
              THEN RefreshCurrentScreen([s EXCEPT !.blinkState = TRUE], "idle")
              ELSE s
    IN  [s1 EXCEPT !.ledCleanedUp = TRUE]

\* The idle branch: display visible again, LED off once.
AlertIdle(s) ==
    LET s1 == IF ~s.blinkState
              THEN RefreshCurrentScreen([s EXCEPT !.blinkState = TRUE], "idle")
              ELSE s
    IN  IF ~s1.ledCleanedUp
        THEN [(IF config.alert_mode = 1 \/ config.alert_mode = 2
               THEN DigitalWrite(s1, LedLevel(FALSE)) ELSE s1)
                EXCEPT !.ledCleanedUp = TRUE]
        ELSE s1

\* The alert logic of loop().
AlertLogic(s, cm) ==
    LET s1 == AlertDuration(s, cm)
    IN  IF s1.ret
        THEN LET s2 == [s1 EXCEPT !.ledCleanedUp = FALSE]
                 s3 == IF ActivePattern(s2) = 3 THEN SosBlink(s2, cm)
                       ELSE StandardBlink(s2, cm, ActivePattern(s2))
             IN  ApplyAlert(s3)
        ELSE AlertIdle(s1)

----------------------------------------------------------------------------
(* loop() in normal ticker operation, and setup().                         *)

\* One call of loop().  in.dt is the time since the previous millis() read.
LoopBody(s, in) ==
    LET cm == (s.now + in.dt) % ClockMod
        s0 == [s EXCEPT !.now = cm, !.currentMillis = cm,
                        !.renders = <<>>, !.attempts = <<>>,
                        !.ledWrites = <<>>,
                        !.d5Level = in.d5, !.d6Level = in.d6]
        s1 == WiFiCheck(s0, cm, in)
        s2 == PricePoll(s1, cm, in)
        s3 == WeatherPoll(s2, cm, in)
        s4 == ScreenCycle(s3, cm)
        s5 == OnDemandReturn(s4, cm)
        s6 == ScreenButton(s5, cm, in.d6)
        s7 == D5Button(s6, cm, in.d5)
        Alert(t) == IF t.running THEN AlertLogic(t, cm) ELSE t
    IN  Alert(s7)

\* setup() from the point where WiFi is connected: LED pin initialised,
\* initial fetches, initial screen.  boot is millis() at that point.
Setup(boot, resp, wres, ms) ==
    LET s0 == [Boot EXCEPT !.now = boot, !.currentMillis = boot,
                           !.g_wifiConnected = TRUE]
        s1 == IF config.alert_mode = 1 \/ config.alert_mode = 2
              THEN [s0 EXCEPT !.ledPin = LedLevel(FALSE)] ELSE s0
        Polled(t) == [t EXCEPT !.g_lastWeatherPoll = t.now]
        Weather(t) == IF config.weather_enabled
                      THEN Polled(FetchWeather(t, wres, ms)) ELSE t
        Screen(t) ==
            LET t1 == [t EXCEPT !.g_lastScreenSwitch = t.now]
            IN  IF config.d5_btc_mode /\ config.weather_enabled
                THEN DrawWeatherScreen([t1 EXCEPT !.g_currentScreen = 1], "setup")
                ELSE UpdateDisplay([t1 EXCEPT !.g_currentScreen = 0], "setup")
    IN  Screen(Weather(FetchPrice(s1, resp, ms)))

\* The loop() action: it runs while the firmware has not restarted and the
\* clock stays below maxT.
Loop(in, maxT) ==
    /\ running
    /\ now + in.dt <= maxT
    /\ Commit(LoopBody(Cur, in))
    /\ UNCHANGED <<config, twin, web, ticker>>

\* What the environment may supply.
Quote(ok, price, change) == [ok |-> ok, price |-> price, change |-> change]

Input(dt, wifiUp, resp, respRe, attemptMs, lag, wres, d5, d6) ==
    [dt |-> dt, wifiUp |-> wifiUp, resp |-> resp, respRe |-> respRe,
     attemptMs |-> attemptMs, lag |-> lag, wres |-> wres, d5 |-> d5, d6 |-> d6]

----------------------------------------------------------------------------
(* The log buffer and the web server.  A log line is the record of its     *)
(* text and of the number of the addLogEntry call that wrote it; the       *)
(* buffer, its head and its count travel as one record l.                  *)

LOG_BUFFER_SIZE == 20

\* A line with text `text`, written by call number k.
Line(k, text) == [n |-> k, text |-> text]

\* g_logBuffer, g_logHead, g_logCount as the definitions initialise them.
EmptyLog ==
    [buf |-> [i \in 0..(LOG_BUFFER_SIZE - 1) |-> Line(0, "")],
     head |-> 0, count |-> 0, calls |-> 0]

CurLog ==
    [buf |-> g_logBuffer, head |-> g_logHead, count |-> g_logCount,
     calls |-> logCalls]

CommitLog(l) ==
    /\ g_logBuffer' = l.buf
    /\ g_logHead' = l.head
    /\ g_logCount' = l.count
    /\ logCalls' = l.calls

\* addLogEntry(msg), msg not null.
AddLogEntry(l, text) ==
    [buf   |-> [l.buf EXCEPT ![l.head] = Line(l.calls + 1, text)],
     head  |-> ((l.head + 1) % LOG_BUFFER_SIZE) % Byte,
     count |-> IF l.count < LOG_BUFFER_SIZE THEN (l.count + 1) % Byte
               ELSE l.count,
     calls |-> l.calls + 1]

\* Mutant of LogIndex: the entries are read from slot 0 on.
LogIndexFromZero(l, i) == i

\* handleLogs: the slot of the i-th entry sent, i from 0.
LogIndex(l, i) ==
    (l.head - l.count + i + LOG_BUFFER_SIZE) % LOG_BUFFER_SIZE

\* handleLogs: the entries sent, in order.
LogEntries(l) == [i \in 1..l.count |-> l.buf[LogIndex(l, i - 1)]]

\* HTTP requests and responses.
NoCred == [user |-> "", pass |-> ""]
Cred(user, pass) == [user |-> user, pass |-> pass]
Request(path, cred, form) == [path |-> path, cred |-> cred, form |-> form]
NoRequest == Request("", NoCred, DefaultConfig)
Response(code, kind, entries, page) ==
    [code |-> code, kind |-> kind, entries |-> entries, page |-> page]
NoResponse == Response(0, "none", <<>>, DefaultConfig)

\* server.requestAuthentication()
Unauthorized == Response(401, "none", <<>>, DefaultConfig)

\* server.authenticate("admin", config.web_password)
Authenticate(cred) == cred.user = "admin" /\ cred.pass = config.web_password

\* Mutant of RequireAuth: any user name passes with the password.
RequireAuthAnyUser(cred) ==
    IF g_isInConfigMode THEN TRUE
    ELSE IF config.web_password = "" THEN TRUE
    ELSE cred.pass = config.web_password

\* requireAuth()
RequireAuth(cred) ==
    IF g_isInConfigMode THEN TRUE
    ELSE IF config.web_password = "" THEN TRUE
    ELSE Authenticate(cred)

\* handleLogs
HandleLogs(cred) ==
    /\ running
    /\ request' = Request("/logs", cred, DefaultConfig)
    /\ response' = IF RequireAuth(cred)
                   THEN Response(200, "logs", LogEntries(CurLog), DefaultConfig)
                   ELSE Unauthorized
    /\ UNCHANGED <<config, twin, g_isInConfigMode, g_logBuffer, g_logHead,
                   g_logCount, logCalls, stored, ticker>>
    /\ Commit(Cur)

\* handleRoot: the page shows the configuration.
HandleRoot(cred) ==
    /\ running
    /\ request' = Request("/", cred, DefaultConfig)
    /\ response' = IF RequireAuth(cred)
                   THEN Response(200, "page", <<>>, config)
                   ELSE Unauthorized
    /\ UNCHANGED <<config, twin, g_isInConfigMode, g_logBuffer, g_logHead,
                   g_logCount, logCalls, stored, ticker>>
    /\ Commit(Cur)

\* handleSave: the form's fields are taken over, the file is written
\* (fsOk: it could be opened), the answer is sent and the device restarts
\* after a second.
HandleSave(cred, form, fsOk) ==
    /\ running
    /\ request' = Request("/save", cred, form)
    /\ IF RequireAuth(cred)
       THEN /\ config' = HandleSaveD5(form)
            /\ stored' = IF fsOk THEN config' ELSE stored
            /\ CommitLog(AddLogEntry(CurLog,
                   IF fsOk THEN "[FS] Configuration saved!"
                   ELSE "[FS] Failed to open config for writing"))
            /\ response' = Response(200, "saved", <<>>, DefaultConfig)
            /\ Commit([Cur EXCEPT !.now = (@ + 1000) % ClockMod,
                                  !.running = FALSE])
       ELSE /\ response' = Unauthorized
            /\ UNCHANGED <<config, g_logBuffer, g_logHead, g_logCount,
                           logCalls, stored>>
            /\ Commit(Cur)
    /\ UNCHANGED <<twin, g_isInConfigMode, ticker>>

\* Some code logs a line.
LogLine(text) ==
    /\ running
    /\ CommitLog(AddLogEntry(CurLog, text))
    /\ UNCHANGED <<config, twin, g_isInConfigMode, stored, request, response,
                   ticker>>
    /\ Commit(Cur)

\* startConfigMode(): the portal's screen is drawn.
StartConfigMode(s) == Show(s, "setup", "setupMode", 0)

----------------------------------------------------------------------------
(* The variant with the hardcoded configuration (btc_ticker.ino): two      *)
(* providers, Binance (0) and CoinGecko (1), a cached quote, no weather    *)
(* screen, no buttons; the alert thresholds are compiled in as 0, so the   *)
(* display never blinks.  Its state is the record t.                       *)

POLL_INTERVAL_MS == 60000
TickerWiFiCheckPeriod == 5000
ProviderResetMs == 900000
TickerReconnectMs == 600
TickerReconnectFailedMs == 5100

\* The globals and statics as their definitions initialise them; polled is
\* the outcome of the price poll of the last loop() call.
TickerBoot ==
    [ now |-> 0,
      g_wifiConnected |-> FALSE,
      g_currentPrice |-> 0,
      g_cachedPrice |-> 0,
      g_dataStale |-> FALSE,
      g_hasValidData |-> FALSE,
      g_lastPollTime |-> 0,
      g_lastSuccessTime |-> 0,
      g_currentProvider |-> 0,
      g_providerResetTime |-> 0,
      g_consecutiveFailures |-> 0,
      lastWiFiCheck |-> 0,
      polled |-> "setup",
      ret |-> FALSE ]

\* checkWiFiConnection(): up is WiFi.status() on entry, re its value after
\* the reconnection attempt.
TickerCheckWiFi(t, up, re) ==
    IF up THEN [t EXCEPT !.g_wifiConnected = TRUE]
    ELSE [t EXCEPT !.g_wifiConnected = re,
                   !.now = (@ + (IF re THEN TickerReconnectMs
                                 ELSE TickerReconnectFailedMs)) % ClockMod]

\* fetchPriceBinance() / fetchPriceCoinGecko(): provider p answers iff it is
\* in q.ok.
TickerFetchFrom(t, p, q) ==
    IF p \in q.ok
    THEN [t EXCEPT !.g_currentPrice = q.price,
                   !.g_cachedPrice = q.price,
                   !.g_hasValidData = TRUE,
                   !.g_dataStale = FALSE,
                   !.g_lastSuccessTime = t.now,
                   !.ret = TRUE]
    ELSE [t EXCEPT !.ret = FALSE]

\* fetchPrice(), the 15-minute return to the primary provider.
TickerProviderReset(t) ==
    IF Sub(t.now, t.g_providerResetTime) > ProviderResetMs
    THEN [t EXCEPT !.g_currentProvider = 0, !.g_providerResetTime = t.now]
    ELSE t

\* fetchPrice(), the second attempt after the first one failed.
TickerFallback(t, q) ==
    IF t.ret THEN t
    ELSE TickerFetchFrom([t EXCEPT !.g_currentProvider = 1 - @],
                         1 - t.g_currentProvider, q)

\* fetchPrice(), after the attempts.
TickerCountFailures(t) ==
    IF ~t.ret
    THEN [t EXCEPT !.g_consecutiveFailures = (@ + 1) % Byte,
                   !.g_currentPrice =
                       IF t.g_hasValidData THEN t.g_cachedPrice ELSE @,
                   !.g_dataStale = IF t.g_hasValidData THEN TRUE ELSE @,
                   !.polled = "failed"]
    ELSE [t EXCEPT !.g_consecutiveFailures = 0, !.polled = "ok"]

\* fetchPrice()
TickerFetchPrice(t, q) ==
    IF ~t.g_wifiConnected
    THEN [t EXCEPT !.g_currentPrice =
                       IF t.g_hasValidData THEN t.g_cachedPrice ELSE @,
                   !.g_dataStale = IF t.g_hasValidData THEN TRUE ELSE @,
                   !.polled = "offline"]
    ELSE TickerCountFailures(
             TickerFallback(
                 TickerFetchFrom(TickerProviderReset(t),
                                 TickerProviderReset(t).g_currentProvider, q),
                 q))

\* loop(): the staleness test after the fetch.
TickerStaleCheck(t) ==
    IF Sub(t.now, t.g_lastSuccessTime) > POLL_INTERVAL_MS * 3
    THEN [t EXCEPT !.g_dataStale = TRUE]
    ELSE t

\* loop(): the WiFi check.
TickerWiFiStage(t, cm, in) ==
    IF Sub(cm, t.lastWiFiCheck) > TickerWiFiCheckPeriod
    THEN [TickerCheckWiFi(t, in.wifiUp, in.wifiRe) EXCEPT !.lastWiFiCheck = cm]
    ELSE t

\* loop(): the price poll.
TickerPollStage(t, cm, in) ==
    IF Sub(cm, t.g_lastPollTime) >= POLL_INTERVAL_MS
    THEN [TickerStaleCheck(TickerFetchPrice(t, in.q))
             EXCEPT !.g_lastPollTime = cm]
    ELSE [t EXCEPT !.polled = "none"]

\* setup(): connectWiFi(), the first fetch, the timers.
TickerSetup(boot, up, q) ==
    [TickerFetchPrice([TickerBoot EXCEPT !.now = boot,
                                         !.g_wifiConnected = up], q)
        EXCEPT !.polled = "setup",
               !.g_lastPollTime = boot,
               !.g_providerResetTime = boot]

\* One loop() call of the variant, in.dt after the previous one.
TickerStep(t, in) ==
    TickerPollStage(
        TickerWiFiStage([t EXCEPT !.now = (@ + in.dt) % ClockMod],
                        (t.now + in.dt) % ClockMod, in),
        (t.now + in.dt) % ClockMod, in)

TickerInput(dt, wifiUp, wifiRe, q) ==
    [dt |-> dt, wifiUp |-> wifiUp, wifiRe |-> wifiRe, q |-> q]

TickerLoop(in, maxT) ==
    /\ ticker.now + in.dt <= maxT
    /\ ticker' = TickerStep(ticker, in)
    /\ Commit(Cur)
    /\ UNCHANGED <<config, twin, web>>

----------------------------------------------------------------------------
(* Specifications.  Each starts from the state setup() leaves and repeats  *)
(* loop(); they differ in the configurations and the environment they      *)
(* range over.                                                             *)

\* millis() when setup() reaches its initial fetch: 500 ms serial delay,
\* 3 s wipe window, the WiFi connect and a 3 s splash come before it.
BootTimes == {7000}

AllOk(price, change) == Quote(Providers, price, change)
NoneOk == Quote({}, 0, 0)

\* The variables hold the record s.
StartsAs(s) ==
    /\ now = s.now
    /\ g_currentPrice = s.g_currentPrice
    /\ g_priceChange24h = s.g_priceChange24h
    /\ g_wifiConnected = s.g_wifiConnected
    /\ g_hasValidData = s.g_hasValidData
    /\ g_dataStale = s.g_dataStale
    /\ g_lastPollTime = s.g_lastPollTime
    /\ g_lastSuccessTime = s.g_lastSuccessTime
    /\ g_currentProvider = s.g_currentProvider
    /\ g_consecutiveFailures = s.g_consecutiveFailures
    /\ g_hasWeatherData = s.g_hasWeatherData
    /\ g_weatherStale = s.g_weatherStale
    /\ g_lastWeatherPoll = s.g_lastWeatherPoll
    /\ g_lastWeatherSuccess = s.g_lastWeatherSuccess
    /\ g_currentScreen = s.g_currentScreen
    /\ g_lastScreenSwitch = s.g_lastScreenSwitch
    /\ g_alertStartTime = s.g_alertStartTime
    /\ lastWiFiCheck = s.lastWiFiCheck
    /\ screenBtnPressStart = s.screenBtnPressStart
    /\ screenBtnHandled = s.screenBtnHandled
    /\ btnPressStart = s.btnPressStart
    /\ d5WeatherShowing = s.d5WeatherShowing
    /\ d5BtcShowing = s.d5BtcShowing
    /\ d5BtcReleaseTime = s.d5BtcReleaseTime
    /\ d5WeatherReleaseTime = s.d5WeatherReleaseTime
    /\ lastBlinkTime = s.lastBlinkTime
    /\ blinkState = s.blinkState
    /\ ledCleanedUp = s.ledCleanedUp
    /\ sosStep = s.sosStep
    /\ display = s.display
    /\ ledPin = s.ledPin
    /\ renders = s.renders
    /\ attempts = s.attempts
    /\ ledWrites = s.ledWrites
    /\ currentMillis = s.currentMillis
    /\ d5Level = s.d5Level
    /\ d6Level = s.d6Level
    /\ running = s.running

\* There is no second device.
NoTwin ==
    [config |-> DefaultConfig, state |-> Boot,
     in |-> Input(0, TRUE, NoneOk, NoneOk, 0, 0, 0, FALSE, FALSE),
     turn |-> "none"]

\* The web server has served no request and nothing was logged.
WebIdle ==
    /\ g_isInConfigMode = FALSE
    /\ g_logBuffer = EmptyLog.buf
    /\ g_logHead = EmptyLog.head
    /\ g_logCount = EmptyLog.count
    /\ logCalls = EmptyLog.calls
    /\ stored = config
    /\ request = NoRequest
    /\ response = NoResponse

InitWith(configs, resps, wress) ==
    /\ config \in configs
    /\ twin = NoTwin
    /\ WebIdle
    /\ ticker = TickerBoot
    /\ \E boot \in BootTimes, resp \in resps, wres \in wress :
          StartsAs(Setup(boot, resp, wres, 0))

\* TRUE in every state a loop() call produced (not in the state setup()
\* leaves).
LoopRan == ~(renders # <<>> /\ renders[1].by = "setup")

(* -- The dual-purpose button: both D5 roles, with and without the weather *)
(* feature, timeout 0 and 5 s; the inputs are the D5 and D6 levels.        *)

D5MaxTime == 17000

D5Configs ==
    { HandleSaveD5([DefaultConfig EXCEPT !.weather_enabled = w,
                                         !.button_mode = b,
                                         !.d5_weather_mode = dw,
                                         !.d5_btc_mode = ~dw,
                                         !.d5_timeout = to]) :
        w \in BOOLEAN, b \in {0, 3}, dw \in BOOLEAN, to \in {0, 5000} }

D5Init == InitWith(D5Configs, {AllOk(100, 1)}, {1})

D5Loop ==
    \E dt \in {500, 1000, 2000}, d5 \in BOOLEAN, d6 \in BOOLEAN :
        Loop(Input(dt, TRUE, AllOk(100, 1), AllOk(100, 1), 0, 0, 1, d5, d6),
             D5MaxTime)

D5Next == D5Loop

SpecD5 == D5Init /\ [][D5Next]_vars

(* -- The price acquisition: every api_source, providers that fail or      *)
(* answer, requests that return at once or block for 5 s.  WiFi stays up.  *)

AcqMaxTime == 47000

AcqConfigs ==
    { [DefaultConfig EXCEPT !.api_source = a, !.poll_interval = 5000] :
        a \in 0..4 }

AcqQuotes ==
    {NoneOk} \cup
    { Quote(ok, q[1], q[2]) : ok \in (SUBSET Providers) \ {{}},
                              q \in {<<100, 1>>, <<200, 2>>} }

AcqInit == InitWith(AcqConfigs, {AllOk(100, 1), NoneOk}, {1})

AcqLoop ==
    \E dt \in {5000, 10000}, resp \in AcqQuotes, ms \in {0, 5000} :
        Loop(Input(dt, TRUE, resp, NoneOk, ms, 0, 1, FALSE, FALSE),
             AcqMaxTime)

AcqNext == AcqLoop

SpecAcq == AcqInit /\ [][AcqNext]_vars

(* -- Display ownership: D5 is the factory-reset button, the price is      *)
(* below or above the high threshold, in each alert mode.                  *)

OwnerMaxTime == 19000

OwnerConfigs ==
    { [DefaultConfig EXCEPT !.alert_high = 150, !.alert_mode = m,
                            !.alert_duration = d] :
        m \in 0..2, d \in {0, 3} }

OwnerInit == InitWith(OwnerConfigs, {AllOk(100, 1), AllOk(200, 2)}, {1})

OwnerLoop ==
    \E dt \in {500, 1000}, d5 \in BOOLEAN :
        Loop(Input(dt, TRUE, AllOk(100, 1), NoneOk, 0, 0, 1, d5, FALSE),
             OwnerMaxTime)

OwnerNext == OwnerLoop

SpecOwner == OwnerInit /\ [][OwnerNext]_vars

(* -- A long outage: polls every 5 s, each of which fails at every         *)
(* provider or is answered by all.                                         *)

OutageMaxTime == 1300000

OutageConfigs == { [DefaultConfig EXCEPT !.poll_interval = 5000] }

OutageInit == InitWith(OutageConfigs, {AllOk(100, 1)}, {1})

OutageLoop ==
    \E resp \in {NoneOk, AllOk(200, 2)} :
        Loop(Input(5000, TRUE, resp, NoneOk, 0, 0, 1, FALSE, FALSE),
             OutageMaxTime)

OutageNext == OutageLoop

SpecOutage == OutageInit /\ [][OutageNext]_vars

(* -- A connection that comes and goes: polls every 20 s, the WiFi check   *)
(* every 30 s finds the connection up or down.                             *)

WifiMaxTime == 120000

WifiConfigs == { [DefaultConfig EXCEPT !.poll_interval = 20000] }

WifiInit == InitWith(WifiConfigs, {AllOk(100, 1)}, {1})

WifiLoop ==
    \E dt \in {10000, 11000}, up \in BOOLEAN, resp \in {NoneOk, AllOk(200, 2)} :
        Loop(Input(dt, up, resp, resp, 0, 0, 1, FALSE, FALSE), WifiMaxTime)

WifiNext == WifiLoop

SpecWifi == WifiInit /\ [][WifiNext]_vars

(* -- The screen modes with the weather feature on: auto cycle, always     *)
(* weather and on-demand, price screen 4 s and weather screen 2 s; the     *)
(* input is the D6 level, and loop() may run again within the same         *)
(* millisecond.                                                            *)

CycleMaxTime == 20000

CycleConfigs ==
    { [DefaultConfig EXCEPT !.weather_enabled = TRUE, !.button_mode = b,
                            !.btc_cycle = 4000, !.weather_cycle = 2000] :
        b \in 0..2 }

CycleInit == InitWith(CycleConfigs, {AllOk(100, 1)}, {1})

CycleLoop ==
    \E dt \in {0, 500, 1000}, d6 \in BOOLEAN :
        Loop(Input(dt, TRUE, AllOk(100, 1), NoneOk, 0, 0, 1, FALSE, d6),
             CycleMaxTime)

CycleNext == CycleLoop

SpecCycle == CycleInit /\ [][CycleNext]_vars

(* -- Manual mode (button_mode 3) with the weather feature on: D5 without  *)
(* a role, as weather button and as BTC button, timeout 0 and 2 s; the     *)
(* inputs are the D5 and D6 levels.                                        *)

ManualMaxTime == 13000

ManualConfigs ==
    { HandleSaveD5([DefaultConfig EXCEPT !.weather_enabled = TRUE,
                                         !.button_mode = 3,
                                         !.d5_weather_mode = dw,
                                         !.d5_btc_mode = db,
                                         !.d5_timeout = to]) :
        dw \in BOOLEAN, db \in BOOLEAN, to \in {0, 2000} }

ManualInit == InitWith(ManualConfigs, {AllOk(100, 1)}, {1})

ManualLoop ==
    \E dt \in {500, 1000}, d5 \in BOOLEAN, d6 \in BOOLEAN :
        Loop(Input(dt, TRUE, AllOk(100, 1), NoneOk, 0, 0, 1, d5, d6),
             ManualMaxTime)

ManualNext == ManualLoop

SpecManual == ManualInit /\ [][ManualNext]_vars

(* -- One long hold: D5 reads high in every loop() call, in each D5 role   *)
(* and without one.  The first call is at HoldFirstCall at the latest.     *)

HoldMaxTime == 20000

HoldFirstCall == 8000

HoldInit == InitWith(ManualConfigs, {AllOk(100, 1)}, {1})

HoldLoop ==
    \E dt \in {500, 1000}, d6 \in BOOLEAN :
        Loop(Input(dt, TRUE, AllOk(100, 1), NoneOk, 0, 0, 1, TRUE, d6),
             HoldMaxTime)

HoldNext == HoldLoop

SpecHold == HoldInit /\ [][HoldNext]_vars

(* -- What a save can store: every button mode and every combination of   *)
(* the two D5 checkboxes on the form, timeout 0 and 2 s, weather on.       *)

SaveMaxTime == 10000

SaveForms ==
    { [DefaultConfig EXCEPT !.weather_enabled = TRUE,
                            !.button_mode = b,
                            !.d5_weather_mode = dw,
                            !.d5_btc_mode = db,
                            !.d5_timeout = to] :
        b \in 0..3, dw \in BOOLEAN, db \in BOOLEAN, to \in {0, 2000} }

SaveConfigs == { HandleSaveD5(c) : c \in SaveForms }

SaveInit == InitWith(SaveConfigs, {AllOk(100, 1)}, {1})

SaveLoop ==
    \E dt \in {500, 1000}, d5 \in BOOLEAN, d6 \in BOOLEAN :
        Loop(Input(dt, TRUE, AllOk(100, 1), NoneOk, 0, 0, 1, d5, d6),
             SaveMaxTime)

SaveNext == SaveLoop

SpecSave == SaveInit /\ [][SaveNext]_vars

(* -- The alert thresholds: none, low only, high only, both with a gap     *)
(* between them and both breached at once; slow pattern for low, fast for  *)
(* high; the price is polled every 2 s and is 40, 100 or 200, or the poll  *)
(* fails; the device may boot without a price.                             *)

AlertMaxTime == 12000

AlertConfigs ==
    { [DefaultConfig EXCEPT !.poll_interval = 2000, !.alert_mode = 2,
                            !.alert_low = th[1], !.alert_high = th[2]] :
        th \in {<<0, 0>>, <<150, 0>>, <<0, 150>>, <<50, 150>>, <<150, 50>>} }

AlertInit == InitWith(AlertConfigs, {NoneOk, AllOk(100, 1)}, {1})

AlertLoop ==
    \E dt \in {250, 1000},
       resp \in {NoneOk, AllOk(40, 1), AllOk(100, 1), AllOk(200, 1)} :
        Loop(Input(dt, TRUE, resp, NoneOk, 0, 0, 1, FALSE, FALSE),
             AlertMaxTime)

AlertNext == AlertLoop

SpecAlert == AlertInit /\ [][AlertNext]_vars

(* -- The duration cutoff: high threshold 150, each alert mode, no cutoff  *)
(* and a cutoff of 2 s; the price is polled every 3 s and is 100 or 200.   *)

CutoffMaxTime == 14000

CutoffConfigs ==
    { [DefaultConfig EXCEPT !.poll_interval = 3000, !.alert_high = 150,
                            !.alert_mode = m, !.alert_duration = d] :
        m \in 0..2, d \in {0, 2} }

CutoffInit == InitWith(CutoffConfigs, {AllOk(100, 1), AllOk(200, 2)}, {1})

CutoffLoop ==
    \E dt \in {250, 1000}, resp \in {AllOk(100, 1), AllOk(200, 2)} :
        Loop(Input(dt, TRUE, resp, NoneOk, 0, 0, 1, FALSE, FALSE),
             CutoffMaxTime)

CutoffNext == CutoffLoop

SpecCutoff == CutoffInit /\ [][CutoffNext]_vars

(* -- A breach that outlasts the millisecond counter: the price stays      *)
(* above the high threshold, the alert is cut off after 2 s, and loop()    *)
(* runs once a second; the run ends when, after a wraparound, WrapMaxTime  *)
(* is reached before the next poll.                                        *)

WrapMaxTime == 20000

WrapConfigs ==
    { [DefaultConfig EXCEPT !.alert_high = 150, !.alert_mode = 2,
                            !.alert_duration = 2] }

WrapInit == InitWith(WrapConfigs, {AllOk(200, 2)}, {1})

\* The counter has wrapped since the last poll: g_lastPollTime lies ahead
\* of millis().
Wrapped == g_lastPollTime > now

WrapLoop ==
    /\ Wrapped => now + 1000 <= WrapMaxTime
    /\ Loop(Input(1000, TRUE, AllOk(200, 2), NoneOk, 0, 0, 1, FALSE, FALSE),
            ClockMod + WrapMaxTime)

WrapNext == WrapLoop

SpecWrap == WrapInit /\ [][WrapNext]_vars

(* -- The SOS pattern: high threshold 150 with pattern 3, display and LED; *)
(* the price is polled every 6 s and is 100 or 200, and loop() runs every  *)
(* 100 or 300 ms.                                                          *)

SosMaxTime == 24000

SosConfigs ==
    { [DefaultConfig EXCEPT !.poll_interval = 6000, !.alert_high = 150,
                            !.blink_pattern_high = 3, !.alert_mode = 2] }

SosInit == InitWith(SosConfigs, {AllOk(100, 1), AllOk(200, 2)}, {1})

SosLoop ==
    \E dt \in {100, 300}, resp \in {AllOk(100, 1), AllOk(200, 2)} :
        Loop(Input(dt, TRUE, resp, NoneOk, 0, 0, 1, FALSE, FALSE),
             SosMaxTime)

SosNext == SosLoop

SpecSos == SosInit /\ [][SosNext]_vars

(* -- The alert outputs: high threshold 150 with the fast pattern, each    *)
(* alert mode, LED active-low and active-high; the price is polled every   *)
(* 2 s and is 100 or 200.                                                  *)

BlinkMaxTime == 13000

BlinkConfigs ==
    { [DefaultConfig EXCEPT !.poll_interval = 2000, !.alert_high = 150,
                            !.alert_mode = m, !.led_inverted = inv] :
        m \in 0..2, inv \in BOOLEAN }

BlinkInit == InitWith(BlinkConfigs, {AllOk(100, 1), AllOk(200, 2)}, {1})

BlinkLoop ==
    \E dt \in {250, 1000}, resp \in {AllOk(100, 1), AllOk(200, 2)} :
        Loop(Input(dt, TRUE, resp, NoneOk, 0, 0, 1, FALSE, FALSE),
             BlinkMaxTime)

BlinkNext == BlinkLoop

SpecBlink == BlinkInit /\ [][BlinkNext]_vars

(* -- The factory-reset hold: the default configuration (D5 without a      *)
(* role, no alert, no weather), loop() every 500 or 1000 ms; the input is  *)
(* the D5 level.                                                           *)

ResetMaxTime == 25000

ResetConfigs == { DefaultConfig }

ResetInit == InitWith(ResetConfigs, {AllOk(100, 1)}, {1})

ResetLoop ==
    \E dt \in {500, 1000}, d5 \in BOOLEAN :
        Loop(Input(dt, TRUE, AllOk(100, 1), NoneOk, 0, 0, 1, d5, FALSE),
             ResetMaxTime)

ResetNext == ResetLoop

SpecReset == ResetInit /\ [][ResetNext]_vars

(* -- Presses of the screen button: the screen modes of SpecCycle, with    *)
(* loop() calls 50, 450 or 500 ms apart, so that presses of 50 ms, of      *)
(* 100 to 950 ms and of 1000 ms and more occur; the input is the D6 level. *)

PressMaxTime == 11500

PressInit == InitWith(CycleConfigs, {AllOk(100, 1)}, {1})

PressLoop ==
    \E dt \in {50, 450, 500}, d6 \in BOOLEAN :
        Loop(Input(dt, TRUE, AllOk(100, 1), NoneOk, 0, 0, 1, FALSE, d6),
             PressMaxTime)

PressNext == PressLoop

SpecPress == PressInit /\ [][PressNext]_vars

(* -- Two devices side by side, D5 being the weather button of the one and *)
(* the BTC button of the other, with the weather feature on and the same   *)
(* timeout (0 or 2 s); the price is polled every 5 s.  Both run setup(),   *)
(* and then each loop() call of the one is followed by a loop() call of    *)
(* the other with the same time step and the same D5 and D6 levels.  The   *)
(* variables hold the device whose turn it is, twin the other one.         *)

MirrorMaxTime == 13000

\* The configuration of the weather-button device.
MirrorConfigs ==
    { HandleSaveD5([DefaultConfig EXCEPT !.weather_enabled = TRUE,
                                         !.poll_interval = 5000,
                                         !.d5_weather_mode = TRUE,
                                         !.d5_timeout = to]) :
        to \in {0, 2000} }

\* The same configuration with the other D5 role.
Mirrored(c) ==
    HandleSaveD5([c EXCEPT !.d5_weather_mode = FALSE, !.d5_btc_mode = TRUE])

MirrorInit ==
    /\ config \in MirrorConfigs
    /\ twin = [NoTwin EXCEPT !.config = Mirrored(config), !.turn = "setup"]
    /\ WebIdle
    /\ ticker = TickerBoot
    /\ \E boot \in BootTimes :
          StartsAs(Setup(boot, AllOk(100, 1), 1, 0))

\* The device in the variables steps aside as state s and the other one
\* takes its place.
TakeTurns(s, in, turn) ==
    /\ twin' = [config |-> config, state |-> s, in |-> in, turn |-> turn]
    /\ config' = twin.config
    /\ Commit(twin.state)
    /\ UNCHANGED <<web, ticker>>

\* setup() of the second device.
MirrorSetup ==
    /\ twin.turn = "setup"
    /\ twin' = [config |-> config, state |-> Cur, in |-> twin.in,
                turn |-> "first"]
    /\ config' = twin.config
    /\ \E boot \in BootTimes :
          Commit(Setup(boot, AllOk(100, 1), 1, 0)')
    /\ UNCHANGED <<web, ticker>>

\* loop() of the device whose turn it is, on inputs of the environment's
\* choice.
MirrorFirst ==
    /\ twin.turn = "first"
    /\ running /\ twin.state.running
    /\ \E dt \in {500, 1000}, d5 \in BOOLEAN, d6 \in BOOLEAN :
          LET in == Input(dt, TRUE, AllOk(100, 1), NoneOk, 0, 0, 1, d5, d6)
          IN  /\ now + dt <= MirrorMaxTime
              /\ TakeTurns(LoopBody(Cur, in), in, "second")

\* loop() of the other device, on the same inputs.
MirrorSecond ==
    /\ twin.turn = "second"
    /\ TakeTurns(LoopBody(Cur, twin.in), twin.in, "first")

MirrorNext == MirrorSetup \/ MirrorFirst \/ MirrorSecond

SpecMirror == MirrorInit /\ [][MirrorNext]_vars

(* -- The log buffer: lines are logged one after another, enough of them   *)
(* to fill the buffer twice over, and /logs is requested in between; no    *)
(* password is set.                                                        *)

LogMaxCalls == 45

LogInit == InitWith({DefaultConfig}, {AllOk(100, 1)}, {1})

LogAdd == logCalls < LogMaxCalls /\ LogLine("line")

LogRead == HandleLogs(NoCred)

LogNext == LogAdd \/ LogRead

SpecLog == LogInit /\ [][LogNext]_vars

(* -- The password: none or "secret", with either D5 role stored; the      *)
(* device runs normally or runs the configuration portal; three lines were *)
(* logged while it booted.  Requests come without credentials, with the    *)
(* right ones, with a wrong password and with a wrong user name.           *)

AuthBootLines == 3

AuthConfigs ==
    { HandleSaveD5([DefaultConfig EXCEPT !.web_password = pw,
                                         !.d5_weather_mode = dw]) :
        pw \in {"", "secret"}, dw \in BOOLEAN }

AuthCreds ==
    { NoCred, Cred("admin", "secret"), Cred("admin", "guess"),
      Cred("root", "secret"), Cred("admin", "") }

AuthForms ==
    { [DefaultConfig EXCEPT !.web_password = pw, !.alert_high = ah] :
        pw \in {"", "secret", "other"}, ah \in {0, 150} }

RECURSIVE Logged(_, _)
Logged(l, k) == IF k = 0 THEN l ELSE AddLogEntry(Logged(l, k - 1), "boot")

AuthInit ==
    /\ config \in AuthConfigs
    /\ twin = NoTwin
    /\ g_isInConfigMode \in BOOLEAN
    /\ g_logBuffer = Logged(EmptyLog, AuthBootLines).buf
    /\ g_logHead = Logged(EmptyLog, AuthBootLines).head
    /\ g_logCount = Logged(EmptyLog, AuthBootLines).count
    /\ logCalls = Logged(EmptyLog, AuthBootLines).calls
    /\ stored = config
    /\ request = NoRequest
    /\ response = NoResponse
    /\ ticker = TickerBoot
    /\ \E boot \in BootTimes :
          IF g_isInConfigMode
          THEN StartsAs(StartConfigMode([Boot EXCEPT !.now = boot]))
          ELSE StartsAs(Setup(boot, AllOk(100, 1), 1, 0))

AuthRoot == \E cred \in AuthCreds : HandleRoot(cred)

AuthLogs == \E cred \in AuthCreds : HandleLogs(cred)

AuthSave ==
    \E cred \in AuthCreds, form \in AuthForms, fsOk \in BOOLEAN :
        HandleSave(cred, form, fsOk)

AuthNext == AuthRoot \/ AuthLogs \/ AuthSave

SpecAuth == AuthInit /\ [][AuthNext]_vars

(* -- The hardcoded variant: it boots with or without WiFi and a first     *)
(* quote; loop() runs every 20 or 60 s; either provider, both or none      *)
(* answer a poll; the WiFi link may be down at a check.                    *)

TickerMaxTime == 267000

TickerQuotes == { [ok |-> ok, price |-> 100] : ok \in SUBSET {0, 1} }

TickerInit ==
    /\ config = DefaultConfig
    /\ twin = NoTwin
    /\ WebIdle
    /\ StartsAs(Boot)
    /\ \E boot \in BootTimes, up \in BOOLEAN, q \in TickerQuotes :
          ticker = TickerSetup(boot, up, q)

TickerNext ==
    \E dt \in {20000, 60000}, up \in BOOLEAN, re \in BOOLEAN,
       q \in TickerQuotes :
        TickerLoop(TickerInput(dt, up, re, q), TickerMaxTime)

SpecTicker == TickerInit /\ [][TickerNext]_vars

(* -- Staleness across the clock's wraparound: the price is polled every   *)
(* 200 s and loop() runs every 131.072 s, once around the clock and 800 s  *)
(* beyond; a poll is answered or not, the WiFi link is up or down, and the *)
(* screens cycle.                                                          *)

StaleMaxTime == 800000

StaleStep == 131072

StaleConfigs ==
    { [DefaultConfig EXCEPT !.poll_interval = 200000,
                            !.weather_enabled = TRUE] }

StaleInit == InitWith(StaleConfigs, {NoneOk, AllOk(100, 1)}, {1})

\* The counter has wrapped since the last weather poll.
WrappedSinceWeather == g_lastWeatherPoll > now

StaleLoop ==
    /\ WrappedSinceWeather => now + StaleStep <= StaleMaxTime
    /\ \E up \in BOOLEAN, resp \in {NoneOk, AllOk(100, 1)} :
          Loop(Input(StaleStep, up, resp, resp, 0, 0, 1, FALSE, FALSE),
               ClockMod + StaleMaxTime)

StaleNext == StaleLoop

SpecStale == StaleInit /\ [][StaleNext]_vars

(* -- The alert on either screen: weather feature on, auto cycle or        *)
(* on-demand, price screen 4 s and weather screen 2 s, D5 without a role   *)
(* or as the weather button; high threshold 150 in each alert mode; the    *)
(* price is polled every 2 s and is 100 or 200; the inputs are the D5 and  *)
(* D6 levels.                                                              *)

ScreenMaxTime == 10500

ScreenConfigs ==
    { HandleSaveD5([DefaultConfig EXCEPT !.weather_enabled = TRUE,
                                         !.button_mode = b,
                                         !.btc_cycle = 4000,
                                         !.weather_cycle = 2000,
                                         !.d5_weather_mode = dw,
                                         !.d5_timeout = 2000,
                                         !.poll_interval = 2000,
                                         !.alert_high = 150,
                                         !.alert_mode = m]) :
        b \in {0, 2}, dw \in BOOLEAN, m \in 0..2 }

ScreenInit == InitWith(ScreenConfigs, {AllOk(100, 1), AllOk(200, 2)}, {1})

ScreenLoop ==
    \E dt \in {500, 1000}, resp \in {AllOk(100, 1), AllOk(200, 2)},
       d5 \in BOOLEAN, d6 \in BOOLEAN :
        Loop(Input(dt, TRUE, resp, resp, 0, 0, 1, d5, d6), ScreenMaxTime)

ScreenNext == ScreenLoop

SpecScreen == ScreenInit /\ [][ScreenNext]_vars

(* -- The indicator at rest: high threshold 150 in each alert mode, LED    *)
(* active-high or inverted, no cutoff or one after 2 s; the price is       *)
(* polled every 2 s and is 100 or 200, or the poll fails; the device may   *)
(* boot without a price.                                                   *)

LedMaxTime == 12000

LedConfigs ==
    { [DefaultConfig EXCEPT !.poll_interval = 2000, !.alert_high = 150,
                            !.alert_mode = m, !.led_inverted = inv,
                            !.alert_duration = d] :
        m \in 0..2, inv \in BOOLEAN, d \in {0, 2} }

LedInit == InitWith(LedConfigs, {NoneOk, AllOk(100, 1), AllOk(200, 2)}, {1})

LedLoop ==
    \E dt \in {250, 1000}, resp \in {NoneOk, AllOk(100, 1), AllOk(200, 2)} :
        Loop(Input(dt, TRUE, resp, NoneOk, 0, 0, 1, FALSE, FALSE), LedMaxTime)

LedNext == LedLoop

SpecLed == LedInit /\ [][LedNext]_vars

(* -- WiFi outages with the weather feature on: auto cycle (both screens   *)
(* 40 s), always weather, or the D6 button alone; loop() runs every 31 s,  *)
(* so that each call checks the link, which is up or down; the inputs are  *)
(* the link state, the polls' answers and the D6 level.                    *)

ReconnectMaxTime == 193000

ReconnectConfigs ==
    { [DefaultConfig EXCEPT !.weather_enabled = TRUE, !.button_mode = b,
                            !.btc_cycle = 40000, !.weather_cycle = 40000] :
        b \in {0, 1, 3} }

ReconnectInit == InitWith(ReconnectConfigs, {AllOk(100, 1)}, {1})

ReconnectLoop ==
    \E up \in BOOLEAN, resp \in {NoneOk, AllOk(200, 2)}, d6 \in BOOLEAN :
        Loop(Input(31000, up, resp, resp, 0, 0, 1, FALSE, d6),
             ReconnectMaxTime)

ReconnectNext == ReconnectLoop

SpecReconnect == ReconnectInit /\ [][ReconnectNext]_vars

----------------------------------------------------------------------------
(* Claims.                                                                 *)

\* The providers attempted by fetchPrice call `call`, in order.
ProvidersOf(call) == [i \in 1..Len(call) |-> call[i].provider]

\* The call stopped at a provider that answered.
Succeeded(call) == call # <<>> /\ Last(call).ok

\* No attempt of the call answered.
AllFailed(call) == \A i \in 1..Len(call) : ~call[i].ok

\* q is an initial segment of r.
IsPrefix(q, r) == Len(q) <= Len(r) /\ \A i \in 1..Len(q) : q[i] = r[i]

\* Every attempt but the last failed, and the call went on to the end of
\* its provider list `order` unless an attempt answered.
StopsAtFirstSuccess(call, order) ==
    /\ IsPrefix(ProvidersOf(call), order)
    /\ \A i \in 1..(Len(call) - 1) : ~call[i].ok
    /\ (AllFailed(call) => Len(call) = Len(order))

\* C1: with the weather feature disabled the active screen is always the
\* price screen and the weather screen is never drawn, whatever the button
\* mode, the D5 role and the button events.
C1_NeverSecondaryWhenDisabled ==
    ~config.weather_enabled =>
        /\ g_currentScreen = 0
        /\ \A i \in 1..Len(renders) : renders[i].kind # "weather"

\* The reset button has been held for more than 2 s and less than 10 s.
CountdownArmed ==
    /\ ~config.d5_btc_mode /\ ~config.d5_weather_mode
    /\ d5Level /\ btnPressStart # 0
    /\ Sub(currentMillis, btnPressStart) > CountdownAfterMs
    /\ Sub(currentMillis, btnPressStart) < ResetHoldMs

\* The alert is triggered in the last loop() call (after the cutoff).
AlertActive ==
    AlertCondition(Cur) /\ ~DurationExceeded(Cur, currentMillis)

\* C2: at the end of every loop() call the display shows the countdown
\* while the reset button is held between 2 s and 10 s, even during an
\* alert; otherwise, during an alert in display mode, what the alert
\* engine drew last; otherwise the active screen.
C2_DisplayOwnership ==
    (running /\ LoopRan) =>
        IF CountdownArmed
        THEN display.kind = "countdown"
        ELSE IF AlertActive /\ config.alert_mode \in {0, 2}
        THEN renders # <<>> /\ Last(renders).by = "alert"
        ELSE display.kind = (IF g_currentScreen = 0 THEN "btc" ELSE "weather")

\* D5 is the weather button.
ShowsSecondary == config.d5_weather_mode /\ ~config.d5_btc_mode

\* C3: D5 as weather button with a timeout: after a second hold that began
\* while the release countdown was pending, the screen stays on weather
\* while D5 is held and the call that detects the second release does not
\* revert to the price screen (the countdown starts again from there).
C3_RepressCancelsRevert ==
    [][ (ShowsSecondary /\ config.d5_timeout > 0 /\ d5Level
         /\ g_currentScreen = 1)
        => g_currentScreen' = 1 ]_vars

\* C4: D5 as weather button: a call that reads D5 high ends on the weather
\* screen; the call that detects the release reverts at once with timeout
\* 0 and otherwise records the release time r; from then on, D5 staying
\* low, the screen is weather while currentMillis - r < timeout and the
\* price screen from the first call with currentMillis - r >= timeout.
C4_HoldShowsRevertAfterTimeout ==
    [][ ShowsSecondary =>
          /\ d5Level' => g_currentScreen' = 1
          /\ (d5Level /\ ~d5Level' /\ config.d5_timeout = 0)
                => g_currentScreen' = 0
          /\ (d5Level /\ ~d5Level' /\ config.d5_timeout > 0
              /\ d5WeatherReleaseTime = 0)
                => /\ g_currentScreen' = 1
                   /\ d5WeatherReleaseTime' = currentMillis'
          /\ (~d5Level /\ ~d5Level' /\ g_currentScreen = 1)
                => (g_currentScreen' = 1 <=>
                      Sub(currentMillis', d5WeatherReleaseTime)
                          < config.d5_timeout)
          /\ (~d5Level /\ ~d5Level' /\ g_currentScreen = 0)
                => g_currentScreen' = 0 ]_vars

\* C4 witness: the timeout revert has just been drawn, 5 s after the
\* release.
C4_Witness ==
    /\ ShowsSecondary /\ config.d5_timeout > 0
    /\ ~d5Level /\ g_currentScreen = 0 /\ ~d5WeatherShowing
    /\ \E i \in 1..Len(renders) :
          renders[i].by = "d5" /\ renders[i].kind = "btc"

\* C5: g_dataStale is true exactly when g_hasValidData is true and the
\* last success is more than 3 poll intervals old.
C5_StaleIff ==
    g_dataStale <=>
        (g_hasValidData
         /\ Sub(now, g_lastSuccessTime) > 3 * config.poll_interval)

\* C5 as amended: g_dataStale is true only if the last success (or the
\* boot, when there was none) is more than 3 poll intervals old.
C5_StaleOnlyIfOld ==
    g_dataStale => Sub(now, g_lastSuccessTime) > 3 * config.poll_interval

\* C5 witness: a held value has gone stale.
C5_Witness == g_dataStale /\ g_hasValidData /\ LoopRan

\* C6: g_dataStale is raised only when the last success is more than 3 poll
\* intervals old, and so never by the first or second failed poll after a
\* success.
C6_NotByFirstOrSecondFailure ==
    [][ (~g_dataStale /\ g_dataStale') =>
          /\ Sub(now', g_lastSuccessTime') > 3 * config.poll_interval
          /\ (g_hasValidData' => g_consecutiveFailures' \notin {1, 2}) ]_vars

\* C6 as amended: g_dataStale is raised only in a call whose poll failed at
\* every provider and ended more than 3 poll intervals after the last
\* success.
C6_RaisedOnlyWhenOld ==
    [][ (~g_dataStale /\ g_dataStale') =>
          /\ Sub(now', g_lastSuccessTime') > 3 * config.poll_interval
          /\ attempts' # <<>> /\ AllFailed(Last(attempts')) ]_vars

\* C6 witness: the third failed poll after a success has raised the flag.
C6_Witness ==
    /\ g_dataStale /\ g_hasValidData /\ g_consecutiveFailures = 3
    /\ attempts # <<>> /\ AllFailed(Last(attempts))

\* C7: a poll in which a provider answers ends, staleness check included,
\* with g_consecutiveFailures = 0, g_dataStale false, g_hasValidData true
\* and g_lastSuccessTime set during this call, for every api_source.
C7_SuccessResets ==
    (attempts # <<>> /\ Succeeded(Last(attempts))) =>
        /\ g_consecutiveFailures = 0
        /\ ~g_dataStale
        /\ g_hasValidData
        /\ Sub(g_lastSuccessTime, currentMillis) <= Sub(now, currentMillis)

\* C7 witness: a poll that succeeded at its second or later provider.
C7_Witness ==
    /\ LoopRan /\ attempts # <<>> /\ Succeeded(Last(attempts))
    /\ Len(Last(attempts)) > 1

\* The provider preferred by api_source 2, 3, 4.
Preferred == config.api_source - 1

\* C8: with "prefer X first" a poll visits the providers in ring order
\* X, X+1, X+2, X+3 modulo 4 and stops at the first success.
C8_RingOrder ==
    config.api_source \in {2, 3, 4} =>
        \A k \in 1..Len(attempts) :
            StopsAtFirstSuccess(attempts[k],
                [i \in 1..4 |-> (Preferred + i - 1) % 4])

\* The fixed provider sequence without provider p.
Others(p) == SelectSeq(<<Binance, CoinGecko, Coinbase, Kraken>>,
                       LAMBDA x : x # p)

\* C8 as amended: with "prefer X first" a poll visits X and then the other
\* providers in the fixed order Binance, CoinGecko, Coinbase, Kraken, and
\* stops at the first success.
C8_PreferredThenFixedOrder ==
    config.api_source \in {2, 3, 4} =>
        \A k \in 1..Len(attempts) :
            StopsAtFirstSuccess(attempts[k], <<Preferred>> \o Others(Preferred))

\* C8 witness: CoinGecko first, and a poll that went through all four.
C8_Witness ==
    /\ LoopRan /\ config.api_source = 2
    /\ attempts # <<>> /\ Len(Last(attempts)) = 4

\* C9: in Auto mode a poll tries Binance, CoinGecko, Coinbase, Kraken in
\* this order, each at most once, nothing after the first success, and
\* g_currentProvider ends as the provider that answered.
C9_AutoOrder ==
    config.api_source = 0 =>
        \A k \in 1..Len(attempts) :
            /\ StopsAtFirstSuccess(attempts[k],
                                   <<Binance, CoinGecko, Coinbase, Kraken>>)
            /\ (k = Len(attempts) /\ Succeeded(attempts[k]))
                  => g_currentProvider = Last(attempts[k]).provider

\* C9 witness: Auto mode, Kraken answered after the other three failed.
C9_Witness ==
    /\ LoopRan /\ config.api_source = 0
    /\ attempts # <<>> /\ Succeeded(Last(attempts))
    /\ Len(Last(attempts)) = 4 /\ g_currentProvider = Kraken

\* C10: a poll that fails at every provider adds one to
\* g_consecutiveFailures and leaves the price, the change, g_hasValidData
\* and g_lastSuccessTime as they were.
C10_FailureCountsAndRetains ==
    [][ (Len(attempts') = 1 /\ attempts'[1] # <<>> /\ AllFailed(attempts'[1]))
        => /\ g_consecutiveFailures' = g_consecutiveFailures + 1
           /\ g_currentPrice' = g_currentPrice
           /\ g_priceChange24h' = g_priceChange24h
           /\ g_hasValidData' = g_hasValidData
           /\ g_lastSuccessTime' = g_lastSuccessTime ]_vars


\* Some fetchPrice call of the last loop() call made a provider attempt.
Fetched == \E k \in 1..Len(attempts) : attempts[k] # <<>>

\* C11: a loop() call makes provider attempts only if the poll is due in
\* it (currentMillis - g_lastPollTime >= poll_interval).
C11_FetchOnlyWhenDue ==
    [][ Fetched' =>
          Sub(currentMillis', g_lastPollTime) >= config.poll_interval ]_vars

\* C11 as amended: a loop() call makes provider attempts only if the poll
\* is due in it or its WiFi check finds a lost connection restored.
C11_FetchWhenDueOrReconnected ==
    [][ Fetched' =>
          \/ Sub(currentMillis', g_lastPollTime) >= config.poll_interval
          \/ /\ Sub(currentMillis', lastWiFiCheck) > WiFiCheckPeriod
             /\ ~g_wifiConnected /\ g_wifiConnected' ]_vars

\* C11 witness: a reconnect fetch in a call whose poll was not due.
C11_Witness ==
    /\ LoopRan /\ Fetched /\ g_lastPollTime # currentMillis
    /\ \E i \in 1..Len(renders) : renders[i].by = "wifi"


\* A short press on D6 was handled in the loop() call that led to the
\* state.
PressHandled == \E i \in 1..Len(renders) : renders[i].by = "d6"

\* C12: in auto cycle with the weather feature on, a loop() call without a
\* handled D6 press flips the screen exactly when currentMillis -
\* g_lastScreenSwitch has reached the visible screen's duration, and
\* restarts the timer there; a further call at the same millisecond does
\* not flip again.
C12_CycleFlipsWhenDue ==
    [][ (config.button_mode = 0 /\ config.weather_enabled /\ ~PressHandled')
        => LET due == Sub(currentMillis', g_lastScreenSwitch) >=
                         (IF g_currentScreen = 0 THEN config.btc_cycle
                          ELSE config.weather_cycle)
           IN  /\ due => /\ g_currentScreen' = 1 - g_currentScreen
                         /\ g_lastScreenSwitch' = currentMillis'
               /\ ~due => /\ g_currentScreen' = g_currentScreen
                          /\ g_lastScreenSwitch' = g_lastScreenSwitch
               /\ (currentMillis' = g_lastScreenSwitch)
                     => g_currentScreen' = g_currentScreen ]_vars

\* C12 witness: the timer has brought the price screen back after the
\* weather screen's duration.
C12_Witness ==
    /\ config.button_mode = 0 /\ config.weather_enabled
    /\ g_currentScreen = 0 /\ g_lastScreenSwitch = currentMillis
    /\ \E i \in 1..Len(renders) :
          renders[i].by = "cycle" /\ renders[i].kind = "btc"


\* C13: in "always weather" (button_mode 1) with the weather feature on,
\* the active screen is the weather screen in every state from the end of
\* setup() on.
C13_AlwaysWeather ==
    (config.button_mode = 1 /\ config.weather_enabled) => g_currentScreen = 1

\* C14: on-demand (button_mode 2): the screen is the price screen unless a
\* short press was handled; the call that handles one at p ends on the
\* weather screen with g_lastScreenSwitch = p, and from then on a call
\* without a handled press stays on weather while currentMillis - p <
\* weather_cycle and is back on the price screen from the first call with
\* currentMillis - p >= weather_cycle.
C14_OnDemandWindow ==
    [][ (config.button_mode = 2 /\ config.weather_enabled) =>
          /\ PressHandled' => /\ g_currentScreen' = 1
                              /\ g_lastScreenSwitch' = currentMillis'
          /\ (~PressHandled' /\ g_currentScreen = 0) => g_currentScreen' = 0
          /\ (~PressHandled' /\ g_currentScreen = 1) =>
                (g_currentScreen' = 1 <=>
                    Sub(currentMillis', g_lastScreenSwitch)
                        < config.weather_cycle) ]_vars

\* C14 witness: the weather window has ended and the price screen was
\* drawn again.
C14_Witness ==
    /\ config.button_mode = 2 /\ config.weather_enabled
    /\ g_currentScreen = 0
    /\ \E i \in 1..Len(renders) : renders[i].by = "ondemand"


\* D5 has a role.
DualRole == config.d5_weather_mode \/ config.d5_btc_mode

\* The release countdown of the active D5 role has run out at cm.
ReleaseTimeout(cm) ==
    \/ /\ config.d5_btc_mode /\ d5BtcShowing /\ d5BtcReleaseTime # 0
       /\ Sub(cm, d5BtcReleaseTime) >= config.d5_timeout
    \/ /\ ~config.d5_btc_mode /\ d5WeatherShowing /\ d5WeatherReleaseTime # 0
       /\ Sub(cm, d5WeatherReleaseTime) >= config.d5_timeout

\* C15: in manual mode (button_mode 3) no timer and no D6 short press
\* changes g_currentScreen: it changes only in a loop() call that sees a D5
\* edge or the end of the D5 release countdown, and never when D5 has no
\* role.
C15_ManualOnlyD5 ==
    [][ (config.button_mode = 3 /\ g_currentScreen' # g_currentScreen) =>
          /\ DualRole
          /\ \/ d5Level' # d5Level
             \/ ~d5Level' /\ ReleaseTimeout(currentMillis') ]_vars

\* C15 witness: a D6 short press was handled in manual mode and a screen
\* duration has passed since the last switch.
C15_Witness ==
    /\ config.button_mode = 3 /\ ~DualRole /\ PressHandled
    /\ g_currentScreen = 0 /\ currentMillis >= 12000

\* C17: with a D5 role configured, no hold of D5, however long, restarts
\* the firmware or draws the reset countdown.
C17_NoResetWithRole ==
    DualRole =>
        /\ running
        /\ display.kind \notin {"countdown", "resetting"}
        /\ \A i \in 1..Len(renders) :
              renders[i].kind \notin {"countdown", "resetting"}
        /\ btnPressStart = 0

\* C17 witness: D5 has a role and has been held for more than 10 s.
C17_Witness ==
    /\ DualRole /\ d5Level /\ running
    /\ currentMillis > HoldFirstCall + ResetHoldMs


\* C16: the configuration the firmware runs on has at most one D5 role,
\* and button_mode 3 whenever it has one; a form with both roles checked
\* is saved as the BTC role; and in loop() only the branch of the
\* configured role ever runs, the BTC role first.
C16_RoleForcesManual ==
    /\ ~(config.d5_weather_mode /\ config.d5_btc_mode)
    /\ DualRole => config.button_mode = 3
    /\ \A c \in SaveForms :
          (c.d5_weather_mode /\ c.d5_btc_mode) =>
              /\ HandleSaveD5(c).d5_btc_mode
              /\ ~HandleSaveD5(c).d5_weather_mode
              /\ HandleSaveD5(c).button_mode = 3
    /\ config.d5_btc_mode => (~d5WeatherShowing /\ btnPressStart = 0)
    /\ config.d5_weather_mode => (~d5BtcShowing /\ btnPressStart = 0)
    /\ ~DualRole => (~d5WeatherShowing /\ ~d5BtcShowing)

\* C16 witness: a form with both roles checked and auto cycle selected was
\* saved, and D5 has acted as the BTC button.
C16_Witness ==
    /\ config = HandleSaveD5([DefaultConfig EXCEPT !.weather_enabled = TRUE,
                                                   !.button_mode = 0,
                                                   !.d5_weather_mode = TRUE,
                                                   !.d5_btc_mode = TRUE,
                                                   !.d5_timeout = 0])
    /\ d5Level /\ d5BtcShowing /\ g_currentScreen = 0


\* The low and the high condition of the alert, on the state's price.
BelowLow == config.alert_low > 0 /\ g_currentPrice < config.alert_low
AboveHigh == config.alert_high > 0 /\ g_currentPrice > config.alert_high

\* C18: in every loop() call the alert condition is g_hasValidData and
\* (low > 0 and price < low, or high > 0 and price > high), a threshold of
\* 0 switching its side off; while it holds (no cutoff configured) the
\* display toggles at the interval of the low pattern if the low
\* condition holds and of the high pattern otherwise.
C18_ConditionAndPattern ==
    [][ /\ (g_alertStartTime' # 0) <=>
               (g_hasValidData' /\ (BelowLow' \/ AboveHigh'))
        /\ (config.alert_low = 0 /\ config.alert_high = 0)
               => g_alertStartTime' = 0
        /\ (g_alertStartTime' # 0 /\ config.alert_duration = 0) =>
              LET pattern == IF BelowLow' THEN config.blink_pattern_low
                             ELSE config.blink_pattern_high
                  interval == IF pattern = 1 THEN 250
                              ELSE IF pattern = 2 THEN 50 ELSE 1000
              IN  pattern # 3 =>
                    ((blinkState' # blinkState) <=>
                        Sub(currentMillis', lastBlinkTime) >= interval) ]_vars

\* C18 witness: both conditions hold at once and the display has just
\* been blanked.
C18_Witness ==
    /\ g_hasValidData /\ BelowLow /\ AboveHigh
    /\ ~blinkState /\ lastBlinkTime = currentMillis


\* A breach is going on: the alert started at g_alertStartTime.
Breach == LoopRan /\ g_alertStartTime # 0

\* How long the breach has lasted at the last loop() call.
BreachAge == Sub(currentMillis, g_alertStartTime)

\* Nothing blinks: the display is visible, the indicator is off and the
\* last loop() call took the idle branch.
Steady ==
    /\ blinkState /\ display.kind # "blank" /\ ledCleanedUp
    /\ config.alert_mode \in {1, 2} => ledPin = LedLevel(FALSE)
    /\ \A i \in 1..Len(ledWrites) : ledWrites[i] = LedLevel(FALSE)

\* C19: with a cutoff of D > 0 seconds the alert is steady in the call
\* with currentMillis - g_alertStartTime = D * 1000 and in every later
\* call of the breach; with D = 0 it blinks as long as the breach lasts.
C19_SteadyFromDuration ==
    /\ (Breach /\ config.alert_duration > 0
        /\ BreachAge >= config.alert_duration * 1000) => Steady
    /\ (Breach /\ config.alert_duration = 0) => ~ledCleanedUp

\* C19 as amended: with a cutoff of D > 0 seconds the alert still blinks
\* in the calls with currentMillis - g_alertStartTime <= D * 1000 and is
\* steady in every call of the breach with currentMillis -
\* g_alertStartTime > D * 1000; with D = 0 it blinks as long as the breach
\* lasts.
C19_SteadyAfterDuration ==
    /\ (Breach /\ config.alert_duration > 0
        /\ BreachAge > config.alert_duration * 1000) => Steady
    /\ (Breach /\ config.alert_duration > 0
        /\ BreachAge <= config.alert_duration * 1000) => ~ledCleanedUp
    /\ (Breach /\ config.alert_duration = 0) => ~ledCleanedUp

\* C19 witness: display and LED alert, cut off after 2 s, one second
\* past the cutoff.
C19_Witness ==
    /\ Breach /\ config.alert_mode = 2 /\ config.alert_duration = 2
    /\ BreachAge >= 3000 /\ Steady


\* C20: once the cutoff has stopped an alert, it does not blink again
\* while the same breach goes on, however long and across a wraparound of
\* millis(): a loop() call that finds the alert steady and the breach
\* still on leaves it steady.
C20_NoResumeDuringBreach ==
    [][ (config.alert_duration > 0 /\ Breach /\ ledCleanedUp
         /\ g_hasValidData' /\ AboveHigh')
        => ledCleanedUp' ]_vars


\* The raw alert condition on the state's price (before the cutoff).
Triggered == g_hasValidData /\ (BelowLow \/ AboveHigh)

\* C21: g_alertStartTime is set to currentMillis in the loop() call in
\* which the alert condition turns true (or holds in the first call), is
\* left as it is in every later call of the same breach, cutoff or not,
\* and is cleared in every call in which the condition does not hold.
C21_StartSetOncePerBreach ==
    [][ /\ (Triggered' /\ ~(Triggered /\ LoopRan))
              => g_alertStartTime' = currentMillis'
        /\ (Triggered' /\ Triggered /\ LoopRan)
              => g_alertStartTime' = g_alertStartTime
        /\ ~Triggered' => g_alertStartTime' = 0 ]_vars

\* C21 witness: a breach that began after a time without one has outlasted
\* the cutoff by a second, its start time still in place.
C21_Witness ==
    /\ Triggered /\ config.alert_duration = 2
    /\ g_alertStartTime > 8000
    /\ Sub(currentMillis, g_alertStartTime) >= 3000


\* The SOS pattern is the active one in the state's loop() call.
SosActive ==
    /\ Triggered /\ LoopRan
    /\ (IF BelowLow THEN config.blink_pattern_low
        ELSE config.blink_pattern_high) = 3
    /\ ~(config.alert_duration > 0
         /\ Sub(currentMillis, g_alertStartTime) > config.alert_duration * 1000)

\* The table of the SOS pattern: how long each step is held.
SosTable ==
    [k \in 0..17 |-> IF k \in {5, 6, 8, 10, 11} THEN 600
                     ELSE IF k = 17 THEN 2000 ELSE 200]

\* C22: the SOS step stays within 0..17; in a loop() call with the SOS
\* pattern active the display is visible on even steps and blanked on odd
\* ones; and, the last step transition being at most 5 s old, the step is
\* left when and only when its table duration has elapsed since that
\* transition, for the next step, which after 17 is 0.
C22_SosTable ==
    [][ /\ sosStep' \in 0..17
        /\ SosActive' =>
              /\ blinkState' = (sosStep' % 2 = 0)
              /\ Sub(currentMillis', lastBlinkTime) <= SosGapMs =>
                    IF Sub(currentMillis', lastBlinkTime) >= SosTable[sosStep]
                    THEN /\ sosStep' = (IF sosStep = 17 THEN 0 ELSE sosStep + 1)
                         /\ lastBlinkTime' = currentMillis'
                    ELSE /\ sosStep' = sosStep
                         /\ lastBlinkTime' = lastBlinkTime ]_vars

\* C22 witness: the pattern has gone through the long pause of step 17 and
\* is back at step 0.
C22_Witness ==
    /\ SosActive /\ sosStep = 0 /\ lastBlinkTime = currentMillis
    /\ blinkState /\ display.kind = "btc"


\* C23: a loop() call that runs the SOS pattern more than 5 s after the
\* last step transition ends at step 0 with the display visible (and step
\* 0 then lasts its 200 ms).
C23_GapRestartsAtStepZero ==
    [][ (SosActive' /\ Sub(currentMillis', lastBlinkTime) > SosGapMs)
        => (sosStep' = 0 /\ blinkState') ]_vars


\* The loop() call that led to the state took the blink branch of the
\* alert engine.
Blinking == LoopRan /\ Triggered /\ ~DurationExceeded(Cur, currentMillis)

\* The frames the idle branch drew in the last loop() call.
IdleRenders == SelectSeq(renders, LAMBDA r : r.by = "idle")

\* C24: a loop() call in which the alert is not triggered writes the LED
\* and redraws the screen from the alert engine only if the call before it
\* was blinking, then at most once each and the LED to its off level, and
\* leaves both latches set; so in a run of idle calls only the first one
\* writes, and none does when no alert came before.
C24_CleanupOnce ==
    [][ (running' /\ ~Blinking') =>
          /\ blinkState' /\ ledCleanedUp'
          /\ (ledWrites' # <<>> \/ IdleRenders' # <<>>) => Blinking
          /\ Len(ledWrites') <= 1 /\ Len(IdleRenders') <= 1
          /\ \A i \in 1..Len(ledWrites') : ledWrites'[i] = LedLevel(FALSE)
          /\ IdleRenders' # <<>> => ~blinkState
          /\ ledWrites' # <<>> => ~ledCleanedUp ]_vars

\* C24 witness: the first idle call after an alert has switched the LED
\* off and redrawn the screen that the alert had blanked.
C24_Witness ==
    /\ LoopRan /\ ~Blinking /\ ledCleanedUp /\ blinkState
    /\ ledWrites = <<LedLevel(FALSE)>>
    /\ Len(IdleRenders) = 1 /\ display.kind = "btc"


\* The frames the blink branch drew in the last loop() call.
AlertRenders == SelectSeq(renders, LAMBDA r : r.by = "alert")

\* C25: in a loop() call with the alert triggered, display mode and both
\* mode end with the price screen drawn if blinkState is true and with the
\* display blanked if it is false; LED mode and both mode write the pin
\* once, HIGH exactly when blinkState differs from led_inverted.  In
\* display mode the pin is never written, and in LED mode the alert engine
\* draws nothing and the display is never blank.
C25_OutputsFollowBlinkState ==
    /\ Blinking =>
          /\ config.alert_mode \in {0, 2} =>
                /\ Len(AlertRenders) = 1 /\ Last(renders).by = "alert"
                /\ display.kind = (IF blinkState THEN "btc" ELSE "blank")
          /\ config.alert_mode \in {1, 2} =>
                /\ ledWrites = << IF blinkState # config.led_inverted
                                  THEN "HIGH" ELSE "LOW" >>
                /\ ledPin = ledWrites[1]
    /\ config.alert_mode = 0 => (ledWrites = <<>> /\ ledPin = "unset")
    /\ config.alert_mode = 1 =>
          (AlertRenders = <<>> /\ display.kind # "blank")

\* C25 witness: both mode with an active-high LED, the display blanked and
\* the LED low.
C25_Witness ==
    /\ Blinking /\ config.alert_mode = 2 /\ ~config.led_inverted
    /\ ~blinkState /\ display.kind = "blank" /\ ledPin = "LOW"


\* The countdown frames the reset hold drew in the last loop() call.
Countdowns == SelectSeq(renders, LAMBDA r : r.kind = "countdown")

\* C26: D5 without a role and held since t0 (the first call that read it
\* high): every loop() call with 2000 <= currentMillis - t0 < 10000 draws
\* the countdown, with the value 10 - floor((currentMillis - t0) / 1000).
C26_CountdownFromTwoSeconds ==
    [][ (~DualRole /\ d5Level') =>
          LET t0 == IF btnPressStart = 0 THEN currentMillis' ELSE btnPressStart
              held == currentMillis' - t0
          IN  (held >= 2000 /\ held < 10000) =>
                 Countdowns' = << [by |-> "reset", kind |-> "countdown",
                                   n |-> 10 - (held \div 1000)] >> ]_vars

\* C26 as amended: the countdown is drawn in the calls with 2000 <
\* currentMillis - t0 <= 10000, with the value 10 - floor((currentMillis -
\* t0) / 1000) (7 at 3000, 1 at 9000, 0 at 10000), and in no call with
\* currentMillis - t0 <= 2000 or with D5 low.
C26_CountdownAfterTwoSeconds ==
    [][ ~DualRole =>
          LET t0 == IF btnPressStart = 0 THEN currentMillis' ELSE btnPressStart
              held == currentMillis' - t0
          IN  IF d5Level' /\ held > 2000 /\ held <= 10000
              THEN Countdowns' = << [by |-> "reset", kind |-> "countdown",
                                     n |-> 10 - (held \div 1000)] >>
              ELSE Countdowns' = <<>> ]_vars

\* C26 witness: D5 held for 9 s, the countdown shows 1.
C26_Witness ==
    /\ ~DualRole /\ d5Level /\ running /\ btnPressStart # 0
    /\ currentMillis - btnPressStart = 9000
    /\ display = [kind |-> "countdown", n |-> 1]


\* C27: D5 without a role and held since t0: the reset (RESETTING frame,
\* format, restart) happens in the loop() call with currentMillis - t0 >=
\* 10000 and in no call before; it ends the run.
C27_ResetAtTenSeconds ==
    [][ /\ running
        /\ ~DualRole =>
              LET t0 == IF btnPressStart = 0 THEN currentMillis'
                        ELSE btnPressStart
              IN  ~running' <=> (d5Level' /\ currentMillis' - t0 >= 10000) ]_vars

\* C27 as amended: the reset happens in the first loop() call with
\* currentMillis - t0 > 10000 (a call at exactly 10000 still draws the
\* countdown) and in no call with currentMillis - t0 <= 10000; that call
\* draws the RESETTING frame, and no loop() call follows it.
C27_ResetAfterTenSeconds ==
    [][ /\ running
        /\ ~DualRole =>
              LET t0 == IF btnPressStart = 0 THEN currentMillis'
                        ELSE btnPressStart
              IN  /\ ~running' <=> (d5Level' /\ currentMillis' - t0 > 10000)
                  /\ ~running' <=> display'.kind = "resetting" ]_vars

\* C27 witness: the reset has fired, 10.5 s after the first call of the
\* hold.
C27_Witness ==
    /\ ~DualRole /\ ~running /\ d5Level
    /\ currentMillis - btnPressStart = 10500
    /\ display.kind = "resetting"


\* C28: D5 without a role: a loop() call that reads D5 low after a hold of
\* less than 10 s does not reset, clears the hold start, and leaves the
\* display on the active screen, not on the countdown; a later hold is
\* measured from its own first call.
C28_ReleaseLeavesNoResidue ==
    (~DualRole /\ LoopRan /\ ~d5Level) =>
        /\ running
        /\ btnPressStart = 0
        /\ display.kind = (IF g_currentScreen = 0 THEN "btc" ELSE "weather")


\* A screen timer (auto cycle or on-demand return) switched the screen in
\* the loop() call that led to the state.
TimerSwitched ==
    \E i \in 1..Len(renders) : renders[i].by \in {"cycle", "ondemand"}

\* C29: with the weather feature on, the D6 button acts exactly in the
\* loop() call that reads it released after a press of more than 50 ms and
\* less than 1000 ms (measured from the first call that read it pressed);
\* then g_lastScreenSwitch = currentMillis and the screen, as the timers
\* of the same call left it, is toggled in auto cycle and set to weather
\* in the other two modes.  In every other call, a release after a press
\* of 50 ms or less or of 1000 ms or more included, screen and switch time
\* change only if a timer switched; and the press start is cleared by the
\* release, so that no press acts twice.
C29_ShortPressWindow ==
    [][ config.weather_enabled =>
          LET held == currentMillis' - screenBtnPressStart
              short == /\ ~d6Level' /\ screenBtnPressStart # 0
                       /\ held > 50 /\ held < 1000
          IN  /\ PressHandled' <=> short
              /\ PressHandled' =>
                    /\ d6Level
                    /\ g_lastScreenSwitch' = currentMillis'
                    /\ g_currentScreen' =
                          (IF config.button_mode = 0
                           THEN (IF TimerSwitched' THEN g_currentScreen
                                 ELSE 1 - g_currentScreen)
                           ELSE 1)
              /\ (~PressHandled' /\ ~TimerSwitched') =>
                    /\ g_currentScreen' = g_currentScreen
                    /\ g_lastScreenSwitch' = g_lastScreenSwitch
              /\ ~d6Level' => screenBtnPressStart' = 0 ]_vars

\* C29 witness: on-demand mode, the release after a short press has
\* brought up the weather screen.
C29_Witness ==
    /\ config.button_mode = 2 /\ PressHandled /\ ~d6Level
    /\ g_currentScreen = 1 /\ g_lastScreenSwitch = currentMillis
    /\ display.kind = "weather" /\ screenBtnPressStart = 0


\* Both devices have made the same number of loop() calls.
InStep == twin.turn = "first"

\* The frames setup() and the D5 branch drew in the calls rs records.
ButtonRenders(rs) == SelectSeq(rs, LAMBDA r : r.by \in {"setup", "d5"})

\* The screen on the other side of the mirror.
OtherScreen(kind) == IF kind = "btc" THEN "weather" ELSE "btc"

\* C30: the weather-button device and the BTC-button device, fed the same
\* D5 and D6 levels at the same times, have complementary screens after
\* setup() and after every loop() call, and draw in the same calls.
C30_MirrorScreensAndRenders ==
    InStep =>
        /\ g_currentScreen = 1 - twin.state.g_currentScreen
        /\ Len(renders) = Len(twin.state.renders)

\* C30 as amended: the two devices have complementary screens after
\* setup() and after every loop() call, and setup() and the D5 branch draw
\* in the same calls, the one device the screen the other does not; the
\* latch and the release time of the one role equal those of the other.
\* (The periodic redraws differ: each poll redraws only its own screen.)
C30_MirrorButtonLogic ==
    InStep =>
        LET mine == ButtonRenders(renders)
            theirs == ButtonRenders(twin.state.renders)
            w == IF config.d5_weather_mode THEN Cur ELSE twin.state
            b == IF config.d5_weather_mode THEN twin.state ELSE Cur
        IN  /\ g_currentScreen = 1 - twin.state.g_currentScreen
            /\ Len(mine) = Len(theirs)
            /\ \A i \in 1..Len(mine) : mine[i].kind = OtherScreen(theirs[i].kind)
            /\ w.d5WeatherShowing = b.d5BtcShowing
            /\ w.d5WeatherReleaseTime = b.d5BtcReleaseTime
            /\ w.g_currentScreen = (IF w.d5WeatherShowing THEN 1 ELSE 0)

\* C30 witness: the release countdown of 2 s has run out on both devices:
\* the weather-button device has drawn the price screen again and the
\* BTC-button device the weather screen.
C30_Witness ==
    /\ InStep /\ config.d5_btc_mode /\ twin.config.d5_weather_mode
    /\ config.d5_timeout > 0 /\ ~d5Level
    /\ g_currentScreen = 1 /\ twin.state.g_currentScreen = 0
    /\ ButtonRenders(renders)
          = << [by |-> "d5", kind |-> "weather", n |-> 0] >>
    /\ ButtonRenders(twin.state.renders)
          = << [by |-> "d5", kind |-> "btc", n |-> 0] >>


\* The D5 role's alternate screen is showing.
Showing == IF config.d5_btc_mode THEN d5BtcShowing ELSE d5WeatherShowing

\* The frames the D5 role drew in the last loop() call.
D5Renders == SelectSeq(renders, LAMBDA r : r.by = "d5")

\* C31: with a D5 role, the D5 branch draws exactly in the loop() calls in
\* which its showing flag changes (D5 read high while the alternate screen
\* was not showing, instant revert, timeout revert), and then once; it
\* draws nothing while the D5 level stays the same and no release
\* countdown runs out, and nothing when D5 is read high while the
\* alternate screen is already showing.
C31_RenderOnlyOnChange ==
    [][ DualRole =>
          /\ Len(D5Renders') = (IF Showing' # Showing THEN 1 ELSE 0)
          /\ (d5Level' /\ Showing) => D5Renders' = <<>>
          /\ (d5Level' = d5Level
              /\ ~(~d5Level' /\ ReleaseTimeout(currentMillis')))
                => D5Renders' = <<>>
          /\ Showing' # Showing =>
                \/ d5Level' /\ ~Showing
                \/ ~d5Level' /\ Showing
                   /\ (config.d5_timeout = 0
                       \/ ReleaseTimeout(currentMillis')) ]_vars

\* C31 witness: D5 as weather button is read high again while the release
\* countdown is pending and the weather screen still showing: no frame is
\* drawn.
C31_Witness ==
    /\ config.d5_weather_mode /\ d5Level /\ d5WeatherShowing
    /\ d5WeatherReleaseTime # 0 /\ D5Renders = <<>>
    /\ g_currentScreen = 1


\* C32: the debug log is a 20-line circular buffer: after n addLogEntry
\* calls g_logCount = min(n, 20) and g_logHead = n mod 20, and a /logs request
\* answers with exactly the min(n, 20) most recent lines, oldest first.
MostRecent(n) ==
    [i \in 1..(IF n < LOG_BUFFER_SIZE THEN n ELSE LOG_BUFFER_SIZE) |->
        Line((IF n < LOG_BUFFER_SIZE THEN 0 ELSE n - LOG_BUFFER_SIZE) + i,
             "line")]

C32_CircularLog ==
    [][ /\ g_logCount' = (IF logCalls' < LOG_BUFFER_SIZE THEN logCalls'
                          ELSE LOG_BUFFER_SIZE)
        /\ g_logHead' = logCalls' % LOG_BUFFER_SIZE
        /\ (request'.path = "/logs" /\ logCalls' = logCalls)
              => response'.entries = MostRecent(logCalls') ]_vars

\* /logs was answered after the buffer had wrapped and the head stood in the
\* middle of it.
C32_Witness ==
    /\ logCalls > 2 * LOG_BUFFER_SIZE
    /\ g_logHead > 0
    /\ request.path = "/logs"
    /\ Len(response.entries) = LOG_BUFFER_SIZE
    /\ response.entries[LOG_BUFFER_SIZE].n = logCalls


\* C33: with a non-empty web password and outside setup (AP) mode, a request
\* to /, /save or /logs that is not authenticated as admin with that password
\* changes nothing on the device (configuration, stored file, log, run state)
\* and is answered without page or log content; with an empty password or in
\* setup mode every request is served.
Protected == config.web_password # "" /\ ~g_isInConfigMode

AsAdmin(cred) == cred.user = "admin" /\ cred.pass = config.web_password

C33_PasswordGuardsRequests ==
    [][ IF Protected /\ ~AsAdmin(request'.cred)
        THEN /\ Cur' = Cur
             /\ config' = config
             /\ stored' = stored
             /\ CurLog' = CurLog
             /\ response'.code = 401
             /\ response'.kind = "none"
             /\ response'.entries = <<>>
        ELSE /\ response'.code = 200
             /\ response'.kind =
                   (CASE request'.path = "/" -> "page"
                      [] request'.path = "/logs" -> "logs"
                      [] request'.path = "/save" -> "saved") ]_vars

\* /save was requested with the right password under another user name on a
\* protected device, which still runs with its configuration.
C33_Witness ==
    /\ Protected
    /\ request.path = "/save"
    /\ request.cred = Cred("root", "secret")
    /\ request.form.web_password = "other"
    /\ response.code = 401
    /\ running
    /\ stored = config
    /\ logCalls = AuthBootLines


\* C34: in the hardcoded variant a poll in which both providers fail does
\* not by itself mark the data stale: with a value held, g_dataStale is false
\* after such a poll as long as no more than 3 * POLL_INTERVAL_MS have passed
\* since the last success.
C34_StaleOnlyAfterThreeIntervals ==
    (/\ ticker.polled = "failed"
     /\ ticker.g_hasValidData
     /\ Sub(ticker.now, ticker.g_lastSuccessTime) <= 3 * POLL_INTERVAL_MS)
        => ~ticker.g_dataStale


\* C35: once g_dataStale is true it stays true until a provider attempt
\* succeeds: a loop() call clears it only if one of its attempts answered,
\* whatever the time passed, the screen shown and the position of the clock.
C35_StaleUntilSuccess ==
    [][ (g_dataStale /\ ~g_dataStale') =>
            \E k \in 1..Len(attempts') : Succeeded(attempts'[k]) ]_vars

\* The data is stale on the weather screen after failed polls, and the
\* clock has wrapped since the last success.
C35_Witness ==
    /\ g_dataStale
    /\ LoopRan
    /\ now < g_lastSuccessTime
    /\ g_consecutiveFailures > 0
    /\ g_currentScreen = 1


\* C36: while a value is held, g_currentProvider (the label drawn next to
\* the price) names the provider whose answer supplied it; in particular a
\* loop() call whose attempts all fail leaves g_currentProvider as it was.
C36_FailedPollKeepsProvider ==
    [][ (/\ g_hasValidData
         /\ Fetched'
         /\ \A k \in 1..Len(attempts') : AllFailed(attempts'[k]))
            => g_currentProvider' = g_currentProvider ]_vars


\* C37: a loop() call whose poll is due while g_wifiConnected is false makes
\* no provider attempt and leaves the price, g_hasValidData,
\* g_currentProvider, g_consecutiveFailures and g_lastSuccessTime as they
\* were; g_lastPollTime still moves to the call's time and the staleness test
\* still runs, so g_dataStale can come up while g_consecutiveFailures stays.
C37_OfflinePollOnlyAges ==
    [][ (/\ ~g_wifiConnected'
         /\ Sub(currentMillis', g_lastPollTime) >= config.poll_interval)
            => /\ ~Fetched'
               /\ UNCHANGED <<g_currentPrice, g_priceChange24h, g_hasValidData,
                              g_currentProvider, g_consecutiveFailures,
                              g_lastSuccessTime>>
               /\ g_lastPollTime' = currentMillis'
               /\ g_dataStale' =
                     (g_dataStale \/ Sub(now', g_lastSuccessTime)
                                        > 3 * config.poll_interval) ]_vars

\* Offline polls alone have made the held price stale: no attempt has failed
\* since the last success.
C37_Witness ==
    /\ ~g_wifiConnected
    /\ g_hasValidData
    /\ g_dataStale
    /\ g_consecutiveFailures = 0
    /\ g_lastPollTime = currentMillis
    /\ LoopRan


\* The active screen the screen logic of a loop() call at time cm with the
\* button levels d5 and d6 leaves, from the state s before the call.
ScreenLogic(s, cm, d5, d6) ==
    D5Button(ScreenButton(OnDemandReturn(ScreenCycle(s, cm), cm), cm, d6),
             cm, d5).g_currentScreen

\* C38: while the alert is triggered in display mode or both mode, every
\* loop() call ends with the display blank or on the price screen, never on
\* the weather screen, whichever screen is active; and g_currentScreen is
\* what the screen logic of the call left, the alert engine does not touch it.
C38_AlertShowsPriceOrBlank ==
    [][ (running' /\ Blinking' /\ config.alert_mode \in {0, 2}) =>
          /\ display'.kind \in {"btc", "blank"}
          /\ g_currentScreen' =
                ScreenLogic(Cur, currentMillis', d5Level', d6Level') ]_vars

\* The alert has drawn the price screen while the weather screen is active.
C38_Witness ==
    /\ Blinking
    /\ config.alert_mode \in {0, 2}
    /\ g_currentScreen = 1
    /\ blinkState
    /\ display.kind = "btc"
    /\ Last(renders).by = "alert"


\* C39: in LED mode and both mode, every loop() call in which the alert is
\* not triggered (no breach, no price yet, or the cutoff reached) ends with
\* the LED pin at its off level (HIGH if led_inverted, LOW otherwise) and
\* with blinkState true.
C39_IdleLedOff ==
    (running /\ LoopRan /\ ~Blinking /\ config.alert_mode \in {1, 2}) =>
        /\ ledPin = (IF config.led_inverted THEN "HIGH" ELSE "LOW")
        /\ blinkState

\* The cutoff has ended an alert that had the active-high LED on: the call
\* wrote the pin LOW.
C39_Witness ==
    /\ running /\ LoopRan /\ ~Blinking
    /\ Triggered
    /\ config.alert_mode = 1
    /\ ~config.led_inverted
    /\ ledWrites = <<"LOW">>
    /\ ledPin = "LOW"
    /\ blinkState


\* C40: at the end of every loop() call in which the alert is not triggered
\* and the reset countdown is not on the display, the display shows the
\* screen named by g_currentScreen: the price screen for 0, the weather
\* screen for 1.
C40_DisplayIsActiveScreen ==
    (running /\ LoopRan /\ ~Blinking /\ display.kind # "countdown") =>
        display.kind = (IF g_currentScreen = 0 THEN "btc" ELSE "weather")

====
